---- MODULE Spec2Model ----
(***************************************************************************)
(* Flow/task execution runtime of pinazu (runtime.py, decorators.py).      *)
(*                                                                         *)
(* One FlowRunner executes one flow: run_flow runs on the orchestrating    *)
(* thread, every task call made by the flow body is submitted to the       *)
(* runner's ThreadPoolExecutor, where run_task runs on a worker thread.    *)
(* The flow body is user code: it may call tasks, await their futures (or  *)
(* not), catch their exceptions, raise, or return.                         *)
(***************************************************************************)
EXTENDS Integers, Sequences, FiniteSets, TLC

\* ------------------------------------------------------------------ bounds
\* Number of task calls the flow body makes in one run.
MaxCalls == 2
\* The same, for the runs whose status events go to the remote channel.
MaxRemoteCalls == 1
\* The same, for each of the runs made under one FLOW_RUN_ID.
MaxRerunCalls == 1

\* ------------------------------------------------------- program constants
\* FlowRunner.__init__(num_threads=4): size of the worker pool.
NumThreads == 4

\* -------------------------------------------------------------- input sets
\* Task functions of the flow (decorated with @task) and the task calls the
\* flow body makes.  "x" and "zero" serialise to JSON; "dictkey" stands for
\* an argument orjson cannot serialise (a dict with a non-str key), on which
\* key derivation raises TypeError.
Tasks == {"fetch", "divide"}
Invocations == {<<"fetch", "x">>, <<"fetch", "dictkey">>,
                <<"divide", "x">>, <<"divide", "zero">>}
\* A call whose body returns None: fetch from a source that holds nothing.
FalsyInvocations == {<<"fetch", "empty">>}
AllInvocations == Invocations \cup FalsyInvocations
RunIds == {"R1"}
\* The run id of an earlier run of the same flow (another FLOW_RUN_ID).
PriorRunId == "R0"

\* The task bodies: divide raises on "zero" (ZeroDivisionError), every other
\* invocation returns.  fetch returns a JSON-native value (42, or None from
\* an empty source), divide a tuple.
BodyRaises(t, a) == t = "divide" /\ a = "zero"
BodyResult(t, a) ==
    IF t = "fetch" THEN (IF a = "empty" THEN "None" ELSE "int42") ELSE "tuple"

\* orjson.dumps(..., default=str, option=OPT_SORT_KEYS) raises on a dict
\* with non-str keys.
Serialisable(a) == a # "dictkey"

\* CacheResult.model_dump_json() writes a tuple as a JSON array, and
\* CacheResult.model_validate_json() reads a JSON array as a list.
JsonDump(v) ==
    IF v \in {"tuple", "list"} THEN "json-array"
    ELSE IF v = "None" THEN "json-null" ELSE "json-number"
JsonLoad(j) ==
    IF j = "json-array" THEN "list"
    ELSE IF j = "json-null" THEN "None" ELSE "int42"

\* hashlib.md5 of the canonical JSON of {task_name, args, kwargs}; the
\* digest is modelled as the pair it is computed from (no collisions).
InputHash(t, a) == <<t, a>>

\* Mutant of S3CacheKey: the key does not carry the flow run id.
S3CacheKeyNoRunId(run, t, a) ==
    [prefix |-> "result_cache/", flow |-> "-", task |-> t,
     hash |-> InputHash(t, a), ext |-> ".json"]

\* Key strings are modelled by their parts: the text before "flow-", the run
\* id, the task name, the digest and the suffix.
\* CacheManager._generate_cache_key:
\*   result_cache/flow-<id>/tasks/<task>/<hash>.json
S3CacheKey(run, t, a) ==
    [prefix |-> "result_cache/", flow |-> run, task |-> t,
     hash |-> InputHash(t, a), ext |-> ".json"]

\* InMemoryCacheManager._generate_cache_key:
\*   memory_cache/flow-<id>/tasks/<task>/<hash>
MemCacheKey(run, t, a) ==
    [prefix |-> "memory_cache/", flow |-> run, task |-> t,
     hash |-> InputHash(t, a), ext |-> ""]

\* store_result of the S3 backend returns f"s3://{bucket}/{cache_key}".
S3Path(key) == [key EXCEPT !.prefix = "s3://flow-cache-bucket/result_cache/"]

\* Values of result_cache_key that are not keys: None and the empty string.
NoKey == [prefix |-> "None", flow |-> "-", task |-> "-", hash |-> <<"-", "-">>,
          ext |-> ""]
EmptyKey == [prefix |-> "", flow |-> "-", task |-> "-", hash |-> <<"-", "-">>,
             ext |-> ""]

\* Exceptions.
FuseError == "RuntimeError: Flow is in failed state"
TaskBodyError == "ZeroDivisionError"
FlowBodyError == "FlowBodyError"
KeyDerivationError == "TypeError: Dict key must be str"
ClientCreationError == "S3ClientCreationError"
EmitError == "EmitError"
NoExc == "none"

VARIABLES
    flow_run_id,   \* FlowRunner.flow_run_id
    cache_type,    \* FlowRunner.cache_type: "s3" or "memory"
    failed,        \* FlowRunner.failed, the fuse
    tasks_status,  \* FlowRunner.tasks_status: task name -> status
    mem_cache,     \* InMemoryCacheManager._cache: key -> CacheResult
    s3_bucket,     \* objects of the cache bucket: key -> CacheResult (JSON)
    shutdown,      \* FlowRunner.executor has been shut down
    pc,            \* position of the orchestrating thread in run_flow
    flow_exc,      \* exception caught by run_flow's except clause
    flow_outcome,  \* how run_flow ended: "none", "return", "raise"
    body_exit,     \* how the flow body ended, and the state it left
    calls,         \* the task calls of the run, in dispatch order
    events,        \* log_flow_status / log_task_status calls, in order
    cache_ops,     \* number of backend reads and writes made so far
    is_remote,     \* LogManager.is_remote: NATS_URL is set
    body_calls,    \* the task calls the body of the flow function can make
    rerun,         \* runs of the flow under the same FLOW_RUN_ID: how many
                   \* are to follow, how many have ended, and the task calls
                   \* that returned in them
    nat_client,    \* LogManager._nat_client is connected (not None)
    last_emit,     \* what the latest log_*_status call did with its event
    connecting,    \* threads awaiting nats.connect in the nats_client property
    last_send,     \* the connect and publish calls of the latest remote send
    key_calls,     \* two calls of _generate_cache_key: their arguments
    key_out,       \* ... and the keys they returned
    active_flows,  \* decorators._active_flows: run ids, in insertion order
    flow_lock,     \* decorators._flow_lock: "free" or its holder
    fw,            \* invocations of a flow-wrapped function: their position
    submitted,     \* runners whose executor was handed a job by a task call
    task_call,     \* the latest call of a task-wrapped function
    flow_registry, \* decorators._flow_registry: module name -> flow name
    task_registry, \* TaskRegistry._tasks: task name -> function
    reg_log,       \* the register_task calls made so far, in order
    decor,         \* the latest decoration or get_task call and its result
    response,      \* the httpx.Response given to _handle_error_response
    raised,        \* what _handle_error_response raised, if anything
    num_threads,   \* max_workers of a runner's ThreadPoolExecutor
    nesting,       \* how deep the task called by the flow body nests calls
    jobs,          \* the jobs submitted to that executor, in order
    pool_pc,       \* run_flow of that runner: in the body, at the shutdown
    sse,           \* a run of _execute_task_stream: the response's lines,
                   \* the bytes read, decoder, buffer and what was yielded
                   \* (char_cut: a chunk ended inside a character)
    retry          \* a call of stream_with_retry: its arguments, the loop
                   \* variable, the self.stream calls made, the sleeps, the
                   \* counters of _connection_stats and the outcome

config == <<flow_run_id, cache_type, is_remote, body_calls, rerun>>
emitter == <<events, nat_client, last_emit, connecting, last_send>>
keyvars == <<key_calls, key_out>>
ctxvars == <<active_flows, flow_lock, fw, submitted, task_call>>
regvars == <<flow_registry, task_registry, reg_log, decor>>
httpvars == <<response, raised>>
poolvars == <<num_threads, nesting, jobs, pool_pc>>
streamvars == <<sse, retry>>
\* State outside the FlowRunner.
outside == <<keyvars, ctxvars, regvars, httpvars, poolvars, streamvars>>
runner == <<failed, tasks_status, mem_cache, s3_bucket, shutdown>>
main == <<pc, flow_exc, flow_outcome, body_exit>>
vars == <<flow_run_id, cache_type, body_calls, rerun, failed, tasks_status,
          mem_cache, s3_bucket, shutdown, pc, flow_exc, flow_outcome,
          body_exit, calls, events, cache_ops, is_remote, nat_client,
          last_emit, connecting, last_send, key_calls, key_out, active_flows, flow_lock, fw,
          submitted, task_call, flow_registry, task_registry, reg_log,
          decor, response, raised, num_threads, nesting, jobs, pool_pc, sse,
          retry>>

CallIds == 1..Len(calls)
NoRerun == [left |-> 0, no |-> 0, returned |-> {}]
NoEntry == [result |-> "none", cache_key |-> NoKey]
EmptyMap == [k \in {} |-> NoEntry]

\* Mutant of Done: the future is resolved once the outcome is known, before
\* run_task has emitted the status event.
DoneBeforeLog(c) ==
    calls[c].pc \in {"done", "rt_hit_log", "rt_success_log", "rt_failed_log"}

\* The job of the call has ended: its future is resolved.
Done(c) == calls[c].pc = "done"
AllDone == \A c \in CallIds : Done(c)
Running(c) == calls[c].pc \notin {"queued", "done"}

\* A task call: the job submitted by task.wrapper and the locals of run_task.
NewCall(t, a) ==
    [task |-> t, args |-> a, pc |-> "queued",
     cached_result |-> NoEntry,      \* run_task local
     result |-> "none",              \* run_task local
     result_cache_key |-> NoKey,     \* run_task local
     exc |-> NoExc,                  \* exception being handled / raised
     outcome |-> "none",             \* the future: "none", "return", "raise"
     value |-> "none",               \* value the future resolved to
     body_runs |-> 0,                \* times task_func was invoked
     lookup |-> "none",              \* what get_cached_result did
     alone |-> AllDone]              \* every earlier call had finished
                                     \* when the body made this one


FlowEvent(status) ==
    [kind |-> "flow", status |-> status, task |-> "-", key |-> NoKey, call |-> 0]
TaskEvent(c, status, key) ==
    [kind |-> "task", status |-> status, task |-> calls[c].task, key |-> key,
     call |-> c]

\* models.NatTopics
FLOW_STATUS == "v1.svc.worker.flow.status"
TASK_STATUS == "v1.svc.worker.task.status"

\* Mutant of Subject: every status event goes to the task-status subject.
SubjectTaskOnly(ev) == TASK_STATUS

\* log_flow_status passes NatTopics.FLOW_STATUS, log_task_status
\* NatTopics.TASK_STATUS.
Subject(ev) == IF ev.kind = "flow" THEN FLOW_STATUS ELSE TASK_STATUS

\* event.model_dump_json() of Event(message=log_data): the text is modelled by
\* the kind of its "message" member.  FlowRunStatusEvent and
\* TaskRunStatusEvent have required fields, so the message of an event built
\* by log_*_status is never empty.
EventJson(ev) == ev.kind

\* Mutant of EmptyMessage: the text is not inspected.
EmptyMessageIgnored(json) == FALSE

\* if b'"message":{}' in event_json
EmptyMessage(json) == json = "empty"

\* The thread that runs run_flow; the worker thread of call c is named c.
MainThread == 0
NoSend == [connect |-> "none", subjects |-> << >>]

\* What one _send_remote_log call of thread `who` can come to.  A thread in
\* `connecting` found no cached client and awaits nats.connect, which may
\* fail; with a client, the text is inspected and, unless the message is
\* empty, publish is called, which may fail.
EmitOutcomes(who, json) ==
    (IF who \in connecting THEN {"connect_failed"} ELSE {})
    \cup (IF EmptyMessage(json) THEN {"rejected"}
          ELSE {"published", "publish_failed"})

\* Mutant of PublishCalls: a failed publish is tried once more.
PublishCallsRetried(r, subject) ==
    IF r = "published" THEN <<subject>>
    ELSE IF r = "publish_failed" THEN <<subject, subject>>
    ELSE << >>

\* The publish calls of a _send_remote_log call that came to r: one
\* "await nats_client.publish(subject, event_json)" when it got that far.
PublishCalls(r, subject) ==
    IF r \in {"published", "publish_failed"} THEN <<subject>> ELSE << >>

\* Mutant of SendRemoteLogRaises: the failure of connect or publish is
\* raised again after it was logged.
SendRemoteLogReraises(r) == r \in {"connect_failed", "publish_failed"}

\* _send_remote_log: "except Exception as e: self.logger.error(...)"; no
\* outcome r leaves it as an exception.
SendRemoteLogRaises(r) == FALSE

\* The call of thread `who` finds no cached client and is not yet awaiting
\* nats.connect: this step takes it into the nats_client property, up to
\* "await nats.connect(...)".
SendSuspends(who) == ~nat_client /\ who \notin connecting

\* _send_remote_log(log_data, log_type).  nats_client property: "if
\* self._nat_client: return self._nat_client", else "self._nat_client = await
\* nats.connect(...)"; the test and the assignment are separate steps, and
\* the assignment is made whatever _nat_client has become meanwhile.
SendRemoteLog(who, json, subject) ==
    IF SendSuspends(who)
    THEN /\ connecting' = connecting \cup {who}
         /\ UNCHANGED <<nat_client, last_emit, last_send>>
    ELSE \E r \in EmitOutcomes(who, json) :
            /\ connecting' = connecting \ {who}
            /\ last_emit' = r
            /\ nat_client' =
                  (nat_client \/ (who \in connecting /\ r # "connect_failed"))
            /\ last_send' =
                  [connect |-> IF who \notin connecting THEN "none"
                               ELSE IF r = "connect_failed" THEN "failed"
                               ELSE "established",
                   subjects |-> PublishCalls(r, subject)]

\* LogManager.log_flow_status / log_task_status by thread `who`: the event
\* is written to the local logger, or handed to _send_remote_log.  `events`
\* gets the event when the call returns.
LogStatus(who, ev) ==
    IF is_remote
    THEN /\ SendRemoteLog(who, EventJson(ev), Subject(ev))
         /\ events' = IF SendSuspends(who) THEN events ELSE Append(events, ev)
    ELSE /\ events' = Append(events, ev)
         /\ last_emit' = "logged"
         /\ UNCHANGED <<nat_client, connecting, last_send>>

\* The log_*_status call of this step has returned or raised.
Emitted == events' # events

\* The log_*_status call of this step raised.
LogRaised == Emitted /\ SendRemoteLogRaises(last_emit')

\* No key derivation is being observed.
KeyIdle ==
    /\ key_calls = << >>
    /\ key_out = << >>

\* Invocations of the flow-wrapped function, named by the run id each one
\* generates for itself (uuid4).
FlowInvocations == {"F1", "F2"}
NoTaskCall == [caller |-> "none", stack |-> "none", context |-> "none",
               result |-> "none"]

\* decorators.py as imported: empty registry, free lock, nothing invoked.
ContextIdle ==
    /\ active_flows = << >>
    /\ flow_lock = "free"
    /\ fw = [i \in FlowInvocations |-> "start"]
    /\ submitted = {}
    /\ task_call = NoTaskCall

NoFlows == [m \in {} |-> "-"]
NoTasks == [n \in {} |-> "-"]
NoDecoration == [op |-> "none", unit |-> "-", func |-> "-", result |-> "none"]

\* decorators.py and runtime.py as imported: both registries are empty.
RegistryIdle ==
    /\ flow_registry = NoFlows
    /\ task_registry = NoTasks
    /\ reg_log = << >>
    /\ decor = NoDecoration

NoMessage == [form |-> "none", of |-> "-"]
NoResponse == [status_code |-> 0, json |-> "none", error |-> "absent",
               message |-> "absent", text |-> ""]
NotCalled == [called |-> FALSE, raises |-> FALSE, status_code |-> 0,
              message |-> NoMessage]

\* No HTTP response is being handled.
HttpIdle ==
    /\ response = NoResponse
    /\ raised = NotCalled

\* No pool with nested task calls is being observed.
PoolIdle ==
    /\ num_threads = NumThreads
    /\ nesting = 1
    /\ jobs = << >>
    /\ pool_pc = "none"

\* No response stream is being read and stream_with_retry is not called.
NoStream == [lines |-> << >>, tail |-> << >>, pos |-> 0, pending |-> << >>,
             buffer |-> << >>, yielded |-> << >>, heartbeats_received |-> 0,
             char_cut |-> FALSE, phase |-> "none"]
NoRetry == [max_retries |-> 0, retry_delay |-> 0, outcomes |-> << >>,
            attempt |-> 0, attempts |-> 0, sleeps |-> << >>,
            streaming_requests |-> 0, failed_connections |-> 0,
            phase |-> "none", result |-> "none"]
StreamIdle ==
    /\ sse = NoStream
    /\ retry = NoRetry

\* Nothing outside the FlowRunner is being observed.
OutsideIdle ==
    KeyIdle /\ ContextIdle /\ RegistryIdle /\ HttpIdle /\ PoolIdle /\ StreamIdle

\* FlowRunner.__init__ and the frame of run_flow before its first statement.
InitRunner ==
    /\ cache_type \in {"s3", "memory"}
    /\ failed = FALSE
    /\ tasks_status = [t \in Tasks |-> "unset"]
    /\ mem_cache = EmptyMap
    /\ shutdown = FALSE
    /\ pc = "rf_running"
    /\ flow_exc = NoExc
    /\ flow_outcome = "none"
    /\ body_exit = [kind |-> "none", exc |-> NoExc, drained |-> FALSE]
    /\ calls = << >>
    /\ events = << >>
    /\ cache_ops = [reads |-> 0, writes |-> 0]
    /\ nat_client = FALSE
    /\ last_emit = "none"
    /\ connecting = {}
    /\ last_send = NoSend

\* A run with the local logger on an empty cache bucket.
Init ==
    /\ InitRunner
    /\ OutsideIdle
    /\ flow_run_id \in RunIds
    /\ is_remote = FALSE
    /\ body_calls = Invocations
    /\ rerun = NoRerun
    /\ s3_bucket = EmptyMap

\* ---------------------------------------------------------------- run_flow
\* Mutant of RunFlowStart: the body starts without the RUNNING event.
RunFlowStartSilent ==
    /\ pc = "rf_running"
    /\ pc' = "body"
    /\ UNCHANGED <<outside, config, runner, flow_exc, flow_outcome, body_exit, calls,
                   emitter, cache_ops>>

\* run_flow: log_flow_status(RUNNING), then the flow body starts.
RunFlowStart ==
    /\ pc = "rf_running"
    /\ LogStatus(MainThread, FlowEvent("RUNNING"))
    /\ pc' = IF ~Emitted THEN pc ELSE IF LogRaised THEN "rf_except" ELSE "body"
    /\ flow_exc' = IF LogRaised THEN EmitError ELSE flow_exc
    /\ UNCHANGED <<outside, config, failed, tasks_status, mem_cache, s3_bucket, shutdown,
                   flow_outcome, body_exit, calls, cache_ops>>

\* ------------------------------------------------------------ the flow body
\* What the body left behind when it ended: how it ended, the exception it
\* raised, and whether every task call it made had finished (drained: no
\* job queued or running in the pool).
BodyExit(kind, e) == [kind |-> kind, exc |-> e, drained |-> AllDone]

\* The number of task calls the body of this run makes at most.
CallBound ==
    IF rerun.left + rerun.no > 0 THEN MaxRerunCalls
    ELSE IF is_remote THEN MaxRemoteCalls ELSE MaxCalls

\* The body calls a task: task.wrapper resolves the runner and submits
\* asyncio.run(run_task(...)) to the runner's executor; the caller gets the
\* future.
BodyCallTask(t, a) ==
    /\ pc = "body"
    /\ <<t, a>> \in body_calls
    /\ Len(calls) < CallBound
    /\ ~shutdown
    /\ calls' = Append(calls, NewCall(t, a))
    /\ UNCHANGED <<outside, config, runner, main, emitter, cache_ops>>

\* The body awaits a future that raised and lets the exception propagate.
\* (Awaiting a future that returned, or catching the exception of one that
\* raised, changes nothing: the body goes on.)
BodyAwaitRaise(c) ==
    /\ pc = "body"
    /\ Done(c)
    /\ calls[c].outcome = "raise"
    /\ flow_exc' = calls[c].exc
    /\ body_exit' = BodyExit("raise", calls[c].exc)
    /\ pc' = "rf_except"
    /\ UNCHANGED <<outside, config, runner, flow_outcome, calls, emitter, cache_ops>>

\* The body raises an exception of its own.
BodyRaise ==
    /\ pc = "body"
    /\ flow_exc' = FlowBodyError
    /\ body_exit' = BodyExit("raise", FlowBodyError)
    /\ pc' = "rf_except"
    /\ UNCHANGED <<outside, config, runner, flow_outcome, calls, emitter, cache_ops>>

\* The body returns.
BodyReturn ==
    /\ pc = "body"
    /\ body_exit' = BodyExit("return", NoExc)
    /\ pc' = "rf_check"
    /\ UNCHANGED <<outside, config, runner, flow_exc, flow_outcome, calls, emitter,
                   cache_ops>>

\* ------------------------------------------------- run_flow, after the body
\* Mutant of FlowSucceeded: SUCCESS is reported whatever the fuse says.
FlowSucceededAlways == TRUE

\* if not self.failed: ...
FlowSucceeded == ~failed
RunFlowCheck ==
    /\ pc = "rf_check"
    /\ pc' = IF FlowSucceeded THEN "rf_success" ELSE "rf_shutdown"
    /\ UNCHANGED <<outside, config, runner, flow_exc, flow_outcome, body_exit, calls,
                   emitter, cache_ops>>

\* ... await log_flow_status(SUCCESS); return result
RunFlowSuccess ==
    /\ pc = "rf_success"
    /\ LogStatus(MainThread, FlowEvent("SUCCESS"))
    /\ pc' = IF ~Emitted THEN pc
             ELSE IF LogRaised THEN "rf_except" ELSE "rf_shutdown"
    /\ flow_exc' = IF LogRaised THEN EmitError ELSE flow_exc
    /\ UNCHANGED <<outside, config, failed, tasks_status, mem_cache, s3_bucket, shutdown,
                   flow_outcome, body_exit, calls, cache_ops>>

\* except Exception: self.failed = True
RunFlowExcept ==
    /\ pc = "rf_except"
    /\ failed' = TRUE
    /\ pc' = "rf_failed"
    /\ UNCHANGED <<outside, config, tasks_status, mem_cache, s3_bucket, shutdown, flow_exc, flow_outcome, body_exit, calls, emitter,
                   cache_ops>>

\* Mutant of RunFlowFailed: the exception is re-raised without the event.
RunFlowFailedSilent ==
    /\ pc = "rf_failed"
    /\ pc' = "rf_shutdown"
    /\ UNCHANGED <<outside, config, runner, flow_exc, flow_outcome, body_exit, calls,
                   emitter, cache_ops>>

\* ... await log_flow_status(FAILED); raise
RunFlowFailed ==
    /\ pc = "rf_failed"
    /\ LogStatus(MainThread, FlowEvent("FAILED"))
    /\ pc' = IF Emitted THEN "rf_shutdown" ELSE pc
    /\ flow_exc' = IF LogRaised THEN EmitError ELSE flow_exc
    /\ UNCHANGED <<outside, config, failed, tasks_status, mem_cache, s3_bucket, shutdown,
                   flow_outcome, body_exit, calls, cache_ops>>

\* finally: self.executor.shutdown(wait=True) blocks until every submitted
\* job, queued or running, has finished.
RunFlowShutdown ==
    /\ pc = "rf_shutdown"
    /\ AllDone
    /\ shutdown' = TRUE
    /\ pc' = "rf_clear"
    /\ UNCHANGED <<outside, config, failed, tasks_status, mem_cache, s3_bucket, flow_exc, flow_outcome, body_exit, calls, emitter,
                   cache_ops>>

\* Mutant of ClearCache: the entries are kept.
ClearCacheKeeps == mem_cache

\* InMemoryCacheManager.clear_cache
ClearCache == EmptyMap

\* finally: if self.cache_type == "memory": clear_cache(); then run_flow
\* returns the body's result or re-raises the exception it caught.
RunFlowClear ==
    /\ pc = "rf_clear"
    /\ mem_cache' = IF cache_type = "memory" THEN ClearCache ELSE mem_cache
    /\ flow_outcome' = IF flow_exc = NoExc THEN "return" ELSE "raise"
    /\ pc' = "done"
    /\ UNCHANGED <<outside, config, failed, tasks_status, s3_bucket, shutdown, flow_exc, body_exit, calls, emitter, cache_ops>>

\* ---------------------------------------------------------------- run_task
SetCall(c, r) == [calls EXCEPT ![c] = r]
BusyWorkers == Cardinality({c \in CallIds : Running(c)})

\* Mutant of FuseBlown: run_task without the fuse check.
FuseBlownNever == FALSE

\* if self.failed: raise RuntimeError("Flow is in failed state")
FuseBlown == failed

\* The fuse check failed the call: the job ends, its future raises.
RunTaskFused(c) ==
    /\ calls' = SetCall(c, [calls[c] EXCEPT !.pc = "done", !.outcome = "raise",
                                            !.exc = FuseError])
    /\ UNCHANGED <<outside, config, runner, main, emitter, cache_ops>>

\* self.tasks_status[task_name] = FlowStatus.RUNNING
RunTaskMarkRunning(c) ==
    /\ tasks_status' = [tasks_status EXCEPT ![calls[c].task] = "RUNNING"]
    /\ calls' = SetCall(c, [calls[c] EXCEPT !.pc = "rt_lookup"])
    /\ UNCHANGED <<outside, config, failed, mem_cache, s3_bucket, shutdown,
                   main, emitter, cache_ops>>

\* A free worker of the pool takes the job and run_task begins.
RunTaskStart(c) ==
    /\ calls[c].pc = "queued"
    /\ BusyWorkers < NumThreads
    /\ IF FuseBlown THEN RunTaskFused(c) ELSE RunTaskMarkRunning(c)

\* _generate_cache_key of the configured backend
GenerateCacheKey(t, a) ==
    IF cache_type = "s3" THEN S3CacheKey(flow_run_id, t, a)
    ELSE MemCacheKey(flow_run_id, t, a)
CallKey(c) == GenerateCacheKey(calls[c].task, calls[c].args)
Backend == IF cache_type = "s3" THEN s3_bucket ELSE mem_cache

\* An exception leaves the try block of run_task.
RaiseInTask(c, e, how) ==
    calls' = SetCall(c, [calls[c] EXCEPT !.pc = "rt_except", !.exc = e,
                                         !.lookup = how])

\* get_cached_result derives the key outside any try: a serialisation error
\* propagates to run_task.
LookupKeyRaises(c) ==
    /\ ~Serialisable(calls[c].args)
    /\ RaiseInTask(c, KeyDerivationError, "raised")
    /\ UNCHANGED cache_ops

\* CacheManager.get_cached_result enters "async with create_client('s3')"
\* outside its try: a failure to create the client propagates to run_task.
LookupClientRaises(c) ==
    /\ Serialisable(calls[c].args)
    /\ cache_type = "s3"
    /\ RaiseInTask(c, ClientCreationError, "raised")
    /\ UNCHANGED cache_ops

\* The entry a hit returns: the in-memory object, or the stored JSON parsed.
ReadEntry(key) ==
    IF cache_type = "s3"
    THEN [result |-> JsonLoad(s3_bucket[key].result),
          cache_key |-> s3_bucket[key].cache_key]
    ELSE mem_cache[key]

\* Mutant of ExecuteTask: a body that raised is treated as one that returned.
ExecuteTaskIgnoresRaise(c, how) ==
    [calls[c] EXCEPT !.pc = "rt_store", !.body_runs = @ + 1,
                     !.result = IF BodyRaises(calls[c].task, calls[c].args)
                                THEN "none"
                                ELSE BodyResult(calls[c].task, calls[c].args),
                     !.lookup = how]

\* result = await task_func(*args, **kwargs), reached when the lookup
\* returned None.  The body touches no state of the runner, so it is run in
\* the step of the lookup that led to it; `how` records that lookup.
ExecuteTask(c, how) ==
    IF BodyRaises(calls[c].task, calls[c].args)
    THEN [calls[c] EXCEPT !.pc = "rt_except", !.exc = TaskBodyError,
                          !.body_runs = @ + 1, !.lookup = how]
    ELSE [calls[c] EXCEPT !.pc = "rt_store", !.body_runs = @ + 1,
                          !.result = BodyResult(calls[c].task, calls[c].args),
                          !.lookup = how]

\* Mutant of LookupHit: the entry is there but the lookup reports a miss.
LookupHitRunsBody(c) ==
    /\ Serialisable(calls[c].args)
    /\ CallKey(c) \in DOMAIN Backend
    /\ calls' = SetCall(c, ExecuteTask(c, "miss"))
    /\ cache_ops' = [cache_ops EXCEPT !.reads = @ + 1]

\* Mutant of CachedResultFound: run_task tests the truth of the result.
CachedResultTruthy(entry) == entry # NoEntry /\ entry.result # "None"

\* run_task: "if cached_result is not None"
CachedResultFound(entry) == entry # NoEntry

\* The backend holds the entry and returns it to run_task.
LookupHit(c) ==
    /\ Serialisable(calls[c].args)
    /\ CallKey(c) \in DOMAIN Backend
    /\ calls' = SetCall(c,
          IF CachedResultFound(ReadEntry(CallKey(c)))
          THEN [calls[c] EXCEPT !.pc = "rt_hit",
                                !.cached_result = ReadEntry(CallKey(c)),
                                !.lookup = "hit"]
          ELSE ExecuteTask(c, "hit"))
    /\ cache_ops' = [cache_ops EXCEPT !.reads = @ + 1]

\* The backend has no entry: NoSuchKey, or the key is not in _cache.
LookupMiss(c) ==
    /\ Serialisable(calls[c].args)
    /\ CallKey(c) \notin DOMAIN Backend
    /\ calls' = SetCall(c, ExecuteTask(c, "miss"))
    /\ cache_ops' = [cache_ops EXCEPT !.reads = @ + 1]

\* The bucket holds the entry, but get_object or the parse of its body
\* fails: logged, treated as a miss.
LookupError(c) ==
    /\ Serialisable(calls[c].args)
    /\ cache_type = "s3"
    /\ CallKey(c) \in DOMAIN Backend
    /\ calls' = SetCall(c, ExecuteTask(c, "error"))
    /\ cache_ops' = [cache_ops EXCEPT !.reads = @ + 1]

\* cached_result = await self.cache_manager.get_cached_result(...)
RunTaskLookup(c) ==
    /\ calls[c].pc = "rt_lookup"
    /\ \/ LookupKeyRaises(c)
       \/ LookupClientRaises(c)
       \/ LookupHit(c)
       \/ LookupMiss(c)
       \/ LookupError(c)
    /\ UNCHANGED <<outside, config, runner, main, emitter>>

\* if cached_result is not None: tasks_status[task_name] = SUCCESS
RunTaskHit(c) ==
    /\ calls[c].pc = "rt_hit"
    /\ tasks_status' = [tasks_status EXCEPT ![calls[c].task] = "SUCCESS"]
    /\ calls' = SetCall(c, [calls[c] EXCEPT !.pc = "rt_hit_log"])
    /\ UNCHANGED <<outside, config, failed, mem_cache, s3_bucket, shutdown,
                   main, emitter, cache_ops>>

\* ... log_task_status(SUCCESS, cached_result.cache_key);
\*     return cached_result.result
RunTaskHitLog(c) ==
    /\ calls[c].pc = "rt_hit_log"
    /\ LogStatus(c, TaskEvent(c, "SUCCESS", calls[c].cached_result.cache_key))
    /\ calls' = SetCall(c,
          IF ~Emitted THEN calls[c]
          ELSE IF LogRaised
          THEN [calls[c] EXCEPT !.pc = "rt_except", !.exc = EmitError]
          ELSE [calls[c] EXCEPT !.pc = "done", !.outcome = "return",
                                !.value = calls[c].cached_result.result])
    /\ UNCHANGED <<outside, config, failed, tasks_status, mem_cache, s3_bucket, shutdown,
                   main, cache_ops>>

\* InMemoryCacheManager.store_result: self._cache[cache_key] = cache_data
StoreMemory(c) ==
    /\ cache_type = "memory"
    /\ mem_cache' = (CallKey(c) :> [result |-> calls[c].result,
                                    cache_key |-> CallKey(c)]) @@ mem_cache
    /\ calls' = SetCall(c, [calls[c] EXCEPT !.pc = "rt_success",
                               !.result_cache_key = CallKey(c)])
    /\ cache_ops' = [cache_ops EXCEPT !.writes = @ + 1]
    /\ UNCHANGED s3_bucket

\* CacheManager.store_result: put_object succeeds, the S3 path is returned.
StoreS3(c) ==
    /\ cache_type = "s3"
    /\ s3_bucket' = (CallKey(c) :> [result |-> JsonDump(calls[c].result),
                                    cache_key |-> CallKey(c)]) @@ s3_bucket
    /\ calls' = SetCall(c, [calls[c] EXCEPT !.pc = "rt_success",
                               !.result_cache_key = S3Path(CallKey(c))])
    /\ cache_ops' = [cache_ops EXCEPT !.writes = @ + 1]
    /\ UNCHANGED mem_cache

\* Mutant of StoreS3Fails: the error of the write propagates to run_task.
StoreS3FailsRaises(c) ==
    /\ cache_type = "s3"
    /\ RaiseInTask(c, ClientCreationError, calls[c].lookup)
    /\ UNCHANGED <<mem_cache, s3_bucket, cache_ops>>

\* CacheManager.store_result: the write fails, "" is returned.
StoreS3Fails(c) ==
    /\ cache_type = "s3"
    /\ calls' = SetCall(c, [calls[c] EXCEPT !.pc = "rt_success",
                               !.result_cache_key = EmptyKey])
    /\ UNCHANGED <<mem_cache, s3_bucket, cache_ops>>

\* store_result derives the key outside its try.  (The arguments are the
\* ones the lookup derived its key from, so this raises only if the body
\* changed them; the bodies modelled here do not.)
StoreKeyRaises(c) ==
    /\ ~Serialisable(calls[c].args)
    /\ RaiseInTask(c, KeyDerivationError, calls[c].lookup)
    /\ UNCHANGED <<mem_cache, s3_bucket, cache_ops>>

\* result_cache_key = await self.cache_manager.store_result(...)
RunTaskStore(c) ==
    /\ calls[c].pc = "rt_store"
    /\ \/ StoreKeyRaises(c)
       \/ Serialisable(calls[c].args) /\ StoreMemory(c)
       \/ Serialisable(calls[c].args) /\ StoreS3(c)
       \/ Serialisable(calls[c].args) /\ StoreS3Fails(c)
    /\ UNCHANGED <<outside, config, failed, tasks_status, shutdown, main,
                   emitter>>

\* self.tasks_status[task_name] = FlowStatus.SUCCESS
RunTaskSuccess(c) ==
    /\ calls[c].pc = "rt_success"
    /\ tasks_status' = [tasks_status EXCEPT ![calls[c].task] = "SUCCESS"]
    /\ calls' = SetCall(c, [calls[c] EXCEPT !.pc = "rt_success_log"])
    /\ UNCHANGED <<outside, config, failed, mem_cache, s3_bucket, shutdown,
                   main, emitter, cache_ops>>

\* ... log_task_status(SUCCESS, result_cache_key); return result
RunTaskSuccessLog(c) ==
    /\ calls[c].pc = "rt_success_log"
    /\ LogStatus(c, TaskEvent(c, "SUCCESS", calls[c].result_cache_key))
    /\ calls' = SetCall(c,
          IF ~Emitted THEN calls[c]
          ELSE IF LogRaised
          THEN [calls[c] EXCEPT !.pc = "rt_except", !.exc = EmitError]
          ELSE [calls[c] EXCEPT !.pc = "done", !.outcome = "return",
                                !.value = calls[c].result])
    /\ UNCHANGED <<outside, config, failed, tasks_status, mem_cache, s3_bucket, shutdown,
                   main, cache_ops>>

\* Mutant of RunTaskExcept: the task is marked FAILED, the fuse is not set.
RunTaskExceptNoFuse(c) ==
    /\ calls[c].pc = "rt_except"
    /\ tasks_status' = [tasks_status EXCEPT ![calls[c].task] = "FAILED"]
    /\ calls' = SetCall(c, [calls[c] EXCEPT !.pc = "rt_failed_log"])
    /\ UNCHANGED <<outside, config, failed, mem_cache, s3_bucket, shutdown, main,
                   emitter, cache_ops>>

\* except Exception: self.failed = True; tasks_status[task_name] = FAILED
RunTaskExcept(c) ==
    /\ calls[c].pc = "rt_except"
    /\ failed' = TRUE
    /\ tasks_status' = [tasks_status EXCEPT ![calls[c].task] = "FAILED"]
    /\ calls' = SetCall(c, [calls[c] EXCEPT !.pc = "rt_failed_log"])
    /\ UNCHANGED <<outside, config, mem_cache, s3_bucket, shutdown, main,
                   emitter, cache_ops>>

\* ... log_task_status(FAILED, None); raise
RunTaskFailedLog(c) ==
    /\ calls[c].pc = "rt_failed_log"
    /\ LogStatus(c, TaskEvent(c, "FAILED", NoKey))
    /\ calls' = SetCall(c,
          IF ~Emitted THEN calls[c]
          ELSE [calls[c] EXCEPT !.pc = "done", !.outcome = "raise",
                                !.exc = IF LogRaised THEN EmitError ELSE @])
    /\ UNCHANGED <<outside, config, failed, tasks_status, mem_cache, s3_bucket, shutdown,
                   main, cache_ops>>

\* ------------------------------------------------------------ specification
Next ==
    \/ RunFlowStart
    \/ \E i \in AllInvocations : BodyCallTask(i[1], i[2])
    \/ \E c \in CallIds : BodyAwaitRaise(c)
    \/ BodyRaise
    \/ BodyReturn
    \/ RunFlowCheck
    \/ RunFlowSuccess
    \/ RunFlowExcept
    \/ RunFlowFailed
    \/ RunFlowShutdown
    \/ RunFlowClear
    \/ \E c \in CallIds : RunTaskStart(c)
    \/ \E c \in CallIds : RunTaskLookup(c)
    \/ \E c \in CallIds : RunTaskHit(c)
    \/ \E c \in CallIds : RunTaskHitLog(c)
    \/ \E c \in CallIds : RunTaskStore(c)
    \/ \E c \in CallIds : RunTaskSuccess(c)
    \/ \E c \in CallIds : RunTaskSuccessLog(c)
    \/ \E c \in CallIds : RunTaskExcept(c)
    \/ \E c \in CallIds : RunTaskFailedLog(c)

Spec == Init /\ [][Next]_vars

\* The objects a run with id `run` leaves in the cache bucket: CacheManager.
\* store_result writes one for every task call of it that returned.
BucketOfRun(run) ==
    [k \in {S3CacheKey(run, i[1], i[2]) :
               i \in {j \in Invocations :
                         Serialisable(j[2]) /\ ~BodyRaises(j[1], j[2])}}
       |-> [result |-> JsonDump(BodyResult(k.task, k.hash[2])),
            cache_key |-> k]]

\* The objects an earlier run, with another run id, left in the bucket.
PriorRunBucket == BucketOfRun(PriorRunId)

\* A run whose status events go to the remote channel (NATS_URL is set).
\* With the S3 backend the bucket is empty or holds what an earlier process
\* run under the same FLOW_RUN_ID has stored.
InitRemote ==
    /\ InitRunner
    /\ OutsideIdle
    /\ flow_run_id \in RunIds
    /\ is_remote = TRUE
    /\ body_calls = Invocations
    /\ rerun = NoRerun
    /\ s3_bucket \in (IF cache_type = "s3"
                       THEN {EmptyMap, BucketOfRun(flow_run_id)}
                       ELSE {EmptyMap})

SpecRemote == InitRemote /\ [][Next]_vars

\* A run with the remote emitter, or one with the local logger (and the
\* in-memory cache).
InitEmitter ==
    /\ InitRunner
    /\ OutsideIdle
    /\ flow_run_id \in RunIds
    /\ is_remote \in BOOLEAN
    /\ is_remote \/ cache_type = "memory"
    /\ body_calls = Invocations
    /\ rerun = NoRerun
    /\ s3_bucket \in (IF cache_type = "s3"
                       THEN {EmptyMap, BucketOfRun(flow_run_id)}
                       ELSE {EmptyMap})

SpecEmitter == InitEmitter /\ [][Next]_vars

\* A run with the S3 backend on the bucket an earlier run has written to.
InitSecondRun ==
    /\ InitRunner
    /\ OutsideIdle
    /\ cache_type = "s3"
    /\ flow_run_id \in RunIds
    /\ is_remote = FALSE
    /\ body_calls = Invocations
    /\ rerun = NoRerun
    /\ s3_bucket = PriorRunBucket

SpecSecondRun == InitSecondRun /\ [][Next]_vars

\* A flow whose body calls fetch on a source that holds 42 and on one that
\* holds nothing.
InitHit ==
    /\ InitRunner
    /\ OutsideIdle
    /\ flow_run_id \in RunIds
    /\ is_remote = FALSE
    /\ body_calls = {<<"fetch", "x">>} \cup FalsyInvocations
    /\ rerun = NoRerun
    /\ s3_bucket = EmptyMap

SpecHit == InitHit /\ [][Next]_vars

\* The task calls of the run that have returned.
Returned ==
    {<<calls[c].task, calls[c].args>> :
        c \in {d \in CallIds : calls[d].outcome = "return"}}

\* The run has ended and the flow-wrapped function is invoked again under
\* the same FLOW_RUN_ID: flow.wrapper builds a new FlowRunner, with a new
\* InMemoryCacheManager or a CacheManager on the same bucket, a new
\* LogManager and a new executor.
StartLaterRun ==
    /\ pc = "done"
    /\ rerun.left > 0
    /\ rerun' = [left |-> rerun.left - 1, no |-> rerun.no + 1,
                 returned |-> rerun.returned \cup Returned]
    /\ failed' = FALSE
    /\ tasks_status' = [t \in Tasks |-> "unset"]
    /\ mem_cache' = EmptyMap
    /\ shutdown' = FALSE
    /\ pc' = "rf_running"
    /\ flow_exc' = NoExc
    /\ flow_outcome' = "none"
    /\ body_exit' = [kind |-> "none", exc |-> NoExc, drained |-> FALSE]
    /\ calls' = << >>
    /\ events' = << >>
    /\ cache_ops' = [reads |-> 0, writes |-> 0]
    /\ nat_client' = FALSE
    /\ last_emit' = "none"
    /\ connecting' = {}
    /\ last_send' = NoSend
    /\ UNCHANGED <<outside, flow_run_id, cache_type, is_remote, body_calls,
                   s3_bucket>>

NextRerun ==
    \/ Next
    \/ StartLaterRun

\* A run that is followed by another run under the same FLOW_RUN_ID.
InitRerun ==
    /\ InitRunner
    /\ OutsideIdle
    /\ flow_run_id \in RunIds
    /\ is_remote = FALSE
    /\ body_calls = Invocations
    /\ rerun = [left |-> 1, no |-> 0, returned |-> {}]
    /\ s3_bucket = EmptyMap

SpecRerun == InitRerun /\ [][NextRerun]_vars

\* ------------------------------------------------ _send_remote_log alone
\* Number of _send_remote_log calls made on one LogManager.
MaxSends == 2

\* The texts event.model_dump_json() can give: an event with a flow-status
\* or a task-status message, or one whose message is the empty object.
Jsons == {"flow", "task", "empty"}
Topics == {FLOW_STATUS, TASK_STATUS}

\* A LogManager with NATS_URL set and no FlowRunner at work.
InitSend ==
    /\ OutsideIdle
    /\ flow_run_id = "-"
    /\ cache_type = "memory"
    /\ is_remote = TRUE
    /\ body_calls = {}
    /\ rerun = NoRerun
    /\ failed = FALSE
    /\ tasks_status = [t \in Tasks |-> "unset"]
    /\ mem_cache = EmptyMap
    /\ s3_bucket = EmptyMap
    /\ shutdown = FALSE
    /\ pc = "none"
    /\ flow_exc = NoExc
    /\ flow_outcome = "none"
    /\ body_exit = [kind |-> "none", exc |-> NoExc, drained |-> FALSE]
    /\ calls = << >>
    /\ events = << >>
    /\ cache_ops = [reads |-> 0, writes |-> 0]
    /\ nat_client = FALSE
    /\ last_emit = "none"
    /\ connecting = {}
    /\ last_send = NoSend

\* await self._send_remote_log(log_data, log_type), called with a log_data
\* whose event serialises to json; `events` records the call, and whether it
\* raised, when it has returned.
CallSendRemoteLog(json, log_type) ==
    /\ pc = "none"
    /\ is_remote
    /\ Len(events) < MaxSends
    /\ SendRemoteLog(MainThread, json, log_type)
    /\ events' = IF SendSuspends(MainThread) THEN events
                 ELSE Append(events,
                             [kind |-> json, subject |-> log_type,
                              raised |-> SendRemoteLogRaises(last_emit')])
    /\ UNCHANGED <<outside, config, runner, main, calls, cache_ops>>

NextSend == \E json \in Jsons, log_type \in Topics : CallSendRemoteLog(json, log_type)

SendSpec == InitSend /\ [][NextSend]_vars

\* ------------------------------------------------------- key derivation
\* Number of register_task calls (task decorations) made.
MaxRegistrations == 3

\* No flow is being run: no FlowRunner exists.
NoRunner ==
    /\ flow_run_id = "-"
    /\ cache_type = "memory"
    /\ is_remote = FALSE
    /\ body_calls = {}
    /\ rerun = NoRerun
    /\ failed = FALSE
    /\ tasks_status = [t \in Tasks |-> "unset"]
    /\ mem_cache = EmptyMap
    /\ s3_bucket = EmptyMap
    /\ shutdown = FALSE
    /\ pc = "none"
    /\ flow_exc = NoExc
    /\ flow_outcome = "none"
    /\ body_exit = [kind |-> "none", exc |-> NoExc, drained |-> FALSE]
    /\ calls = << >>
    /\ events = << >>
    /\ cache_ops = [reads |-> 0, writes |-> 0]
    /\ nat_client = FALSE
    /\ last_emit = "none"
    /\ connecting = {}
    /\ last_send = NoSend

runnervars == <<config, runner, main, calls, emitter, cache_ops>>

\* Arguments of _generate_cache_key.  Positional arguments are a tuple;
\* keyword arguments are a dict, which keeps the order in which the caller
\* passed them: here the sequence of its (name, value) items.
KeyRunIds == {"R1", "R2"}
PositionalArgs == {<<"x">>, <<"y">>}
KwNames == {"a", "b"}
KwValues == {"x", "y"}
KwItems == KwNames \X KwValues
KwDicts ==
    {kw \in UNION {[1..n -> KwItems] : n \in 0..Cardinality(KwNames)} :
        \A i, j \in DOMAIN kw : i # j => kw[i][1] # kw[j][1]}
KeyInputs ==
    [run : KeyRunIds, task : Tasks, args : PositionalArgs, kwargs : KwDicts]

\* Two dicts are equal when they hold the same items, whatever their order.
SameDict(kw1, kw2) ==
    {kw1[i] : i \in DOMAIN kw1} = {kw2[i] : i \in DOMAIN kw2}

\* The order of dict keys in the output of orjson under OPT_SORT_KEYS.
KeyOrder(n) == IF n = "a" THEN 1 ELSE 2

\* Mutant of SortKeys: the items are written in the order of the dict.
SortKeysInsertionOrder(kw) == kw

\* json.dumps(..., option=json.OPT_SORT_KEYS): the items of a dict are
\* written sorted by key.
SortKeys(kw) ==
    [i \in DOMAIN kw |->
        CHOOSE item \in {kw[j] : j \in DOMAIN kw} :
            Cardinality({j \in DOMAIN kw :
                            KeyOrder(kw[j][1]) < KeyOrder(item[1])}) = i - 1]

\* input_str: the JSON text of the positional and keyword arguments (the
\* task name, the third member of input_data, is the t of InputHash).
InputStr(args, kwargs) == <<args, SortKeys(kwargs)>>

\* _generate_cache_key(flow_run_id, task_name, args, kwargs) of a backend
GenerateKeyOf(backend, in) ==
    IF backend = "s3"
    THEN S3CacheKey(in.run, in.task, InputStr(in.args, in.kwargs))
    ELSE MemCacheKey(in.run, in.task, InputStr(in.args, in.kwargs))

InitKeys ==
    /\ NoRunner
    /\ ContextIdle
    /\ RegistryIdle
    /\ HttpIdle
    /\ PoolIdle
    /\ StreamIdle
    /\ key_calls \in [backend : {"s3", "memory"}, first : KeyInputs,
                       second : KeyInputs]
    /\ key_out = << >>

\* The two calls are made.
DeriveKeys ==
    /\ key_out = << >>
    /\ key_out' = <<GenerateKeyOf(key_calls.backend, key_calls.first),
                    GenerateKeyOf(key_calls.backend, key_calls.second)>>
    /\ UNCHANGED <<key_calls, runnervars, ctxvars, regvars, httpvars, poolvars, streamvars>>

NextKeys == DeriveKeys

KeySpec == InitKeys /\ [][NextKeys]_vars

\* ------------------------------------------- flow context (decorators.py)
\* The flow-wrapped function (flow.wrapper) is a plain function: it builds
\* the FlowRunner, registers it in _active_flows, calls runner.run_flow,
\* which being "async def" only creates the coroutine, removes the runner
\* from _active_flows in its finally clause and returns the coroutine.  The
\* flow runs when the caller awaits that coroutine.
SetFw(i, p) == fw' = [fw EXCEPT ![i] = p]
Registered == {active_flows[k] : k \in DOMAIN active_flows}
RunnerExists(i) == fw[i] \notin {"start", "raised"}

\* flow_run_id = uuid.UUID(os.getenv("FLOW_RUN_ID", ...)); runner =
\* FlowRunner(...); func._flow_runner = runner
FlowWrapperConstruct(i) ==
    /\ fw[i] = "start"
    /\ SetFw(i, "constructed")
    /\ UNCHANGED <<active_flows, flow_lock, submitted, task_call, keyvars,
                   regvars, httpvars, poolvars, streamvars, runnervars>>

\* ... or the construction raises (FLOW_RUN_ID is no UUID, LOG_LEVEL is no
\* level name): the wrapper ends before anything was registered.
FlowWrapperConstructFails(i) ==
    /\ fw[i] = "start"
    /\ SetFw(i, "raised")
    /\ UNCHANGED <<active_flows, flow_lock, submitted, task_call, keyvars,
                   regvars, httpvars, poolvars, streamvars, runnervars>>

\* with _flow_lock: (entering either of the two blocks of the wrapper)
FlowWrapperAcquire(i) ==
    /\ fw[i] \in {"constructed", "finally"}
    /\ flow_lock = "free"
    /\ flow_lock' = i
    /\ SetFw(i, IF fw[i] = "constructed" THEN "register" ELSE "pop")
    /\ UNCHANGED <<active_flows, submitted, task_call, keyvars, regvars, httpvars, poolvars, streamvars, runnervars>>

\* _active_flows[flow_run_id] = runner
FlowWrapperRegister(i) ==
    /\ fw[i] = "register"
    /\ active_flows' = Append(active_flows, i)
    /\ SetFw(i, "registered")
    /\ UNCHANGED <<flow_lock, submitted, task_call, keyvars, regvars, httpvars, poolvars, streamvars, runnervars>>

\* Mutant of PopFlow: the entry is left in the registry.
PopFlowKeeps(i) == active_flows

\* _active_flows.pop(flow_run_id, None)
PopFlow(i) == SelectSeq(active_flows, LAMBDA r : r # i)

FlowWrapperPop(i) ==
    /\ fw[i] = "pop"
    /\ active_flows' = PopFlow(i)
    /\ SetFw(i, "popped")
    /\ UNCHANGED <<flow_lock, submitted, task_call, keyvars, regvars, httpvars, poolvars, streamvars, runnervars>>

\* Leaving a "with _flow_lock" block.  After the first the wrapper goes on to
\* "return runner.run_flow(func, ...)"; after the second it returns.
FlowWrapperRelease(i) ==
    /\ fw[i] \in {"registered", "popped"}
    /\ flow_lock' = "free"
    /\ SetFw(i, IF fw[i] = "registered" THEN "call_run_flow" ELSE "returned")
    /\ UNCHANGED <<active_flows, submitted, task_call, keyvars, regvars, httpvars, poolvars, streamvars, runnervars>>

\* try: return runner.run_flow(func, *args, **kwargs): the coroutine object
\* is created, nothing of run_flow has run; the finally clause follows.
FlowWrapperCallRunFlow(i) ==
    /\ fw[i] = "call_run_flow"
    /\ SetFw(i, "finally")
    /\ UNCHANGED <<active_flows, flow_lock, submitted, task_call, keyvars,
                   regvars, httpvars, poolvars, streamvars, runnervars>>

\* The caller awaits the coroutine: run_flow starts, the flow body runs.
RunFlowBegin(i) ==
    /\ fw[i] = "returned"
    /\ SetFw(i, "body")
    /\ UNCHANGED <<active_flows, flow_lock, submitted, task_call, keyvars,
                   regvars, httpvars, poolvars, streamvars, runnervars>>

\* run_flow ends (finally: the executor is shut down).
RunFlowEnd(i) ==
    /\ fw[i] = "body"
    /\ SetFw(i, "ended")
    /\ UNCHANGED <<active_flows, flow_lock, submitted, task_call, keyvars,
                   regvars, httpvars, poolvars, streamvars, runnervars>>

\* Mutant of ResolveContext: a task call takes the runner of the latest
\* flow invocation that built one, registered or found on the stack or not.
ResolveContextAny(stack) ==
    IF \E i \in FlowInvocations : RunnerExists(i)
    THEN CHOOSE i \in FlowInvocations : RunnerExists(i)
    ELSE "none"

\* task.wrapper: the most recently added value of _active_flows; when the
\* registry is empty, the first FlowRunner (or object with a _flow_runner
\* attribute) found in the locals and globals of the frames of the call
\* stack: `stack` is the runner found there, or "none".
ResolveContext(stack) ==
    IF active_flows # << >> THEN active_flows[Len(active_flows)] ELSE stack

\* task.wrapper with the context it resolved: TaskError without one; else
\* loop.run_in_executor(flow_context.executor, ...), which raises
\* RuntimeError when that executor has been shut down and submits the job
\* otherwise.
TaskWrapper(caller, stack) ==
    LET ctx == ResolveContext(stack)
        result == IF ctx = "none" THEN "TaskError"
                  ELSE IF fw[ctx] = "ended" THEN "RuntimeError"
                  ELSE "future"
    IN /\ flow_lock = "free"
       /\ task_call' = [caller |-> caller, stack |-> stack, context |-> ctx,
                        result |-> result]
       /\ submitted' = IF result = "future" THEN submitted \cup {ctx}
                       ELSE submitted
       /\ UNCHANGED <<active_flows, flow_lock, fw, keyvars, regvars, httpvars, poolvars, streamvars, runnervars>>

\* A task-wrapped function is called by code that is not a flow body.  The
\* frames of its call stack hold no runner, or hold (in a local or global
\* variable, or as the _flow_runner of the undecorated flow function) the
\* runner of some flow invocation.
OutsideCallTask(stack) ==
    /\ IF stack = "none" THEN TRUE ELSE RunnerExists(stack)
    /\ TaskWrapper("outside", stack)

\* The body of flow invocation i calls a task: the frame of run_flow, whose
\* self is the runner, is on the call stack.
FlowBodyCallTask(i) ==
    /\ fw[i] = "body"
    /\ TaskWrapper(i, i)

NextContext ==
    \/ \E i \in FlowInvocations : FlowWrapperConstruct(i)
    \/ \E i \in FlowInvocations : FlowWrapperConstructFails(i)
    \/ \E i \in FlowInvocations : FlowWrapperAcquire(i)
    \/ \E i \in FlowInvocations : FlowWrapperRegister(i)
    \/ \E i \in FlowInvocations : FlowWrapperRelease(i)
    \/ \E i \in FlowInvocations : FlowWrapperCallRunFlow(i)
    \/ \E i \in FlowInvocations : FlowWrapperPop(i)
    \/ \E i \in FlowInvocations : RunFlowBegin(i)
    \/ \E i \in FlowInvocations : RunFlowEnd(i)
    \/ \E st \in FlowInvocations \cup {"none"} : OutsideCallTask(st)
    \/ \E i \in FlowInvocations : FlowBodyCallTask(i)

InitContext ==
    NoRunner /\ KeyIdle /\ ContextIdle /\ RegistryIdle /\ HttpIdle /\ PoolIdle
    /\ StreamIdle

ContextSpec == InitContext /\ [][NextContext]_vars

\* ------------------------------------------------------------ registries
\* Modules that define flows, flow function names, and the functions that
\* task decorations register (under the task names of Tasks).
Modules == {"m1", "m2"}
FlowNames == {"pipeline", "report"}
Funcs == {"fn1", "fn2"}

\* Mutant of FlowAlreadyDefined: the module is never found in the registry.
FlowNeverDefined(m) == FALSE

\* if module_name in _flow_registry
FlowAlreadyDefined(m) == m \in DOMAIN flow_registry

\* flow(func), applied in module m to a function named f: FlowError when the
\* module has a flow, else the flow is registered and the wrapper returned.
DecorateFlow(m, f) ==
    /\ IF FlowAlreadyDefined(m)
       THEN /\ decor' = [op |-> "flow", unit |-> m, func |-> f,
                         result |-> "FlowError"]
            /\ UNCHANGED flow_registry
       ELSE /\ decor' = [op |-> "flow", unit |-> m, func |-> f,
                         result |-> "wrapper"]
            /\ flow_registry' = (m :> f) @@ flow_registry
    /\ UNCHANGED <<task_registry, reg_log, keyvars, ctxvars, httpvars, poolvars, streamvars, runnervars>>

\* Mutant of RegisterTask: a name that is registered keeps its function.
RegisterTaskKeepFirst(n, fn) ==
    IF n \in DOMAIN task_registry THEN task_registry
    ELSE (n :> fn) @@ task_registry

\* TaskRegistry.register_task: cls._tasks[name] = func
RegisterTask(n, fn) == (n :> fn) @@ task_registry

\* task(func) for a function fn named n: the wrapper is built and
\* TaskRegistry.register_task(func.__name__, func) is called.
DecorateTask(n, fn) ==
    /\ Len(reg_log) < MaxRegistrations
    /\ task_registry' = RegisterTask(n, fn)
    /\ reg_log' = Append(reg_log, <<n, fn>>)
    /\ decor' = [op |-> "task", unit |-> n, func |-> fn, result |-> "wrapper"]
    /\ UNCHANGED <<flow_registry, keyvars, ctxvars, httpvars, poolvars, streamvars, runnervars>>

\* TaskRegistry.get_task: cls._tasks.get(name)
GetTask(n) ==
    /\ decor' = [op |-> "get_task", unit |-> n, func |-> "-",
                 result |-> IF n \in DOMAIN task_registry
                            THEN task_registry[n] ELSE "None"]
    /\ UNCHANGED <<flow_registry, task_registry, reg_log, keyvars, ctxvars,
                   httpvars, poolvars, streamvars, runnervars>>

NextRegistry ==
    \/ \E m \in Modules, f \in FlowNames : DecorateFlow(m, f)
    \/ \E n \in Tasks, fn \in Funcs : DecorateTask(n, fn)
    \/ \E n \in Tasks : GetTask(n)

InitRegistry ==
    NoRunner /\ KeyIdle /\ ContextIdle /\ RegistryIdle /\ HttpIdle /\ PoolIdle
    /\ StreamIdle

RegistrySpec == InitRegistry /\ [][NextRegistry]_vars

\* ------------------------------------------- API client error responses
\* Responses: a status code and a body.  The body is a JSON object (with or
\* without an "error" and a "message" member, each a string, an object or an
\* array), JSON of another type (an array), or no JSON at all (response.json()
\* raises ValueError), in which case response.text is what counts.
StatusCodes == {200, 201, 400, 404, 422, 500, 503}
ErrorFields == {"absent", "error-string", "error-object", "error-array"}
MessageFields == {"absent", "message-string", "message-object"}
Texts == {"", "Internal Server Error"}
Responses ==
    [status_code : StatusCodes, json : {"object"}, error : ErrorFields,
     message : MessageFields, text : {""}]
    \cup [status_code : StatusCodes, json : {"array"}, error : {"absent"},
          message : {"absent"}, text : {""}]
    \cup [status_code : StatusCodes, json : {"invalid"}, error : {"absent"},
          message : {"absent"}, text : Texts]

\* httpx.Response.is_success: the status code is 2xx.
IsSuccess(r) == r.status_code \in 200..299

\* f"HTTP {response.status_code}"
HttpCode(r) == [form |-> "http", of |-> ToString(r.status_code)]

\* A JSON value as it is, and str() of it.
Value(v) == [form |-> "value", of |-> v]
Str(v) == [form |-> "str", of |-> v]
IsDict(v) == v \in {"error-object", "message-object"}

\* Mutant of DictMessage: the "message" member is looked up first.
DictMessageFirst(r) ==
    IF r.message # "absent" THEN Value(r.message)
    ELSE IF r.error # "absent" THEN Value(r.error)
    ELSE HttpCode(r)

\* error_data.get("error", error_data.get("message", f"HTTP {code}"))
DictMessage(r) ==
    IF r.error # "absent" THEN Value(r.error)
    ELSE IF r.message # "absent" THEN Value(r.message)
    ELSE HttpCode(r)

\* The message _handle_error_response builds for an unsuccessful response.
ErrorMessage(r) ==
    IF r.json = "object"
    THEN LET message == DictMessage(r)
         IN IF message.form = "value" /\ IsDict(message.of)
            THEN Str(message.of) ELSE message
    ELSE IF r.json = "array" THEN Str("array")
    ELSE IF r.text # "" THEN [form |-> "text", of |-> r.text]
    ELSE HttpCode(r)

\* _handle_error_response(response)
HandleErrorResponse ==
    /\ ~raised.called
    /\ raised' = IF IsSuccess(response)
                 THEN [called |-> TRUE, raises |-> FALSE, status_code |-> 0,
                       message |-> NoMessage]
                 ELSE [called |-> TRUE, raises |-> TRUE,
                       status_code |-> response.status_code,
                       message |-> ErrorMessage(response)]
    /\ UNCHANGED <<response, keyvars, ctxvars, regvars, poolvars, streamvars, runnervars>>

NextHttp == HandleErrorResponse

InitHttp ==
    /\ NoRunner /\ KeyIdle /\ ContextIdle /\ RegistryIdle /\ PoolIdle
    /\ StreamIdle
    /\ response \in Responses
    /\ raised = NotCalled

HttpSpec == InitHttp /\ [][NextHttp]_vars

\* -------------------------------------------- nested task calls on the pool
\* Largest max_workers, deepest nesting and the most task calls of the flow
\* body observed.
MaxPoolSize == 2
MaxNesting == 3
MaxOuterCalls == 2

JobIds == 1..Len(jobs)

\* A job of the pool: asyncio.run(run_task(...)) of a task whose body
\* nests `level` task calls, itself included; `parent` is the job whose
\* body submitted it, 0 for the flow body.
NewJob(level, parent) == [level |-> level, parent |-> parent, pc |-> "queued"]

\* The job holds a worker thread: its asyncio.run has not returned.
HoldsWorker(j) == jobs[j].pc \in {"running", "awaiting"}
HeldWorkers == Cardinality({j \in JobIds : HoldsWorker(j)})
JobDone(j) == jobs[j].pc = "done"
AllJobsDone == \A j \in JobIds : JobDone(j)

\* The job the body of job j awaits.
InnerOf(j) == CHOOSE k \in JobIds : jobs[k].parent = j

\* A runner with a pool of num_threads workers, about to run a flow body
\* that calls a task nesting calls `nesting` deep.
InitPool ==
    /\ NoRunner /\ KeyIdle /\ ContextIdle /\ RegistryIdle /\ HttpIdle
    /\ StreamIdle
    /\ num_threads \in 1..MaxPoolSize
    /\ nesting \in 1..MaxNesting
    /\ jobs = << >>
    /\ pool_pc = "body"

PoolUnchanged == UNCHANGED <<keyvars, ctxvars, regvars, httpvars, runnervars, streamvars,
                             num_threads, nesting>>

\* The flow body calls the task: task.wrapper submits the job to the
\* runner's executor.
PoolBodyCall ==
    /\ pool_pc = "body"
    /\ Cardinality({j \in JobIds : jobs[j].parent = 0}) < MaxOuterCalls
    /\ jobs' = Append(jobs, NewJob(nesting, 0))
    /\ UNCHANGED pool_pc
    /\ PoolUnchanged

\* The flow body ends and run_flow reaches executor.shutdown(wait=True).
PoolBodyEnd ==
    /\ pool_pc = "body"
    /\ pool_pc' = "shutdown"
    /\ UNCHANGED jobs
    /\ PoolUnchanged

\* A worker of the pool is free to take the queued job.
CanStart(j) == jobs[j].pc = "queued" /\ HeldWorkers < num_threads

PoolStart(j) ==
    /\ CanStart(j)
    /\ jobs' = [jobs EXCEPT ![j].pc = "running"]
    /\ UNCHANGED pool_pc
    /\ PoolUnchanged

\* The body of a running task calls the task it nests and awaits the
\* future: task.wrapper finds the runner in the frame of run_task and
\* submits the inner job to the same executor, which raises RuntimeError
\* once shutdown has been called; run_task then ends with that exception.
CanNest(j) == jobs[j].pc = "running" /\ jobs[j].level > 1
PoolNestedCall(j) ==
    /\ CanNest(j)
    /\ jobs' = IF pool_pc = "shutdown"
               THEN [jobs EXCEPT ![j].pc = "done"]
               ELSE Append([jobs EXCEPT ![j].pc = "awaiting"],
                           NewJob(jobs[j].level - 1, j))
    /\ UNCHANGED pool_pc
    /\ PoolUnchanged

\* The body of the task ends (the future it awaited, if any, is resolved),
\* run_task and asyncio.run return and the worker is free again.
CanFinish(j) ==
    \/ jobs[j].pc = "running" /\ jobs[j].level = 1
    \/ jobs[j].pc = "awaiting" /\ JobDone(InnerOf(j))
PoolFinish(j) ==
    /\ CanFinish(j)
    /\ jobs' = [jobs EXCEPT ![j].pc = "done"]
    /\ UNCHANGED pool_pc
    /\ PoolUnchanged

\* executor.shutdown(wait=True) returns when every job has ended.
PoolShutdown ==
    /\ pool_pc = "shutdown"
    /\ AllJobsDone
    /\ pool_pc' = "done"
    /\ UNCHANGED jobs
    /\ PoolUnchanged

\* Some job of the pool can take a step.
JobsCanStep == \E j \in JobIds : CanStart(j) \/ CanNest(j) \/ CanFinish(j)

NextPool ==
    \/ PoolBodyCall
    \/ PoolBodyEnd
    \/ \E j \in JobIds : PoolStart(j)
    \/ \E j \in JobIds : PoolNestedCall(j)
    \/ \E j \in JobIds : PoolFinish(j)
    \/ PoolShutdown

PoolSpec == InitPool /\ [][NextPool]_vars

\* ------------------------------------------ _execute_task_stream (SSE lines)
\* Most lines of a response body, and the largest chunk iter_bytes gives.
MaxLines == 2
MaxChunk == 3

\* Bytes of a response body, grouped into the pieces the parser tells apart:
\*   "d" data:    "e" event:    "s" a space or CR    "n" the newline
\*   "a" a JSON object that is no heartbeat   "h" {"type": "heartbeat"}
\*   "m" text that is no JSON                 "b1" "b2" the JSON string "é",
\*   cut inside the two-byte character: b1 ends with its lead byte, b2
\*   begins with its continuation byte.
\* The lines a body is made of, by kind.
LineBytes(kind) ==
    CASE kind = "data_a"     -> <<"d", "s", "a", "n">>
      [] kind = "data_a_cr"  -> <<"d", "s", "a", "s", "n">>
      [] kind = "data_b"     -> <<"d", "s", "b1", "b2", "n">>
      [] kind = "heartbeat"  -> <<"d", "s", "h", "n">>
      [] kind = "event"      -> <<"e", "s", "h", "n">>
      [] kind = "empty_data" -> <<"d", "s", "n">>
      [] kind = "blank_data" -> <<"d", "s", "s", "n">>
      [] kind = "malformed"  -> <<"d", "s", "m", "n">>
      [] kind = "two_docs"   -> <<"d", "s", "a", "a", "n">>
      [] kind = "no_space"   -> <<"d", "a", "n">>
LineKinds == {"data_a", "data_a_cr", "data_b", "heartbeat", "event",
              "empty_data", "blank_data", "malformed", "two_docs", "no_space"}
\* What may follow the last newline: nothing, or a data line cut short.
Tails == {<< >>, <<"d", "s", "a">>}

RECURSIVE BodyBytes(_)
BodyBytes(kinds) ==
    IF kinds = << >> THEN << >>
    ELSE LineBytes(Head(kinds)) \o BodyBytes(Tail(kinds))
StreamBytes == BodyBytes(sse.lines) \o sse.tail

\* codecs.getincrementaldecoder("utf-8")(errors="ignore"): a lead byte at the
\* end of the input is held back until the next call; a lead byte without
\* its continuation byte, and a continuation byte without a lead byte, are
\* dropped.  `held` says a lead byte is held; the text is in characters:
\* "q" a double quote, "r" the character é and a double quote.
RECURSIVE DecodeFrom(_, _, _, _)
DecodeFrom(bytes, i, held, text) ==
    IF i > Len(bytes) THEN [text |-> text, held |-> held]
    ELSE IF bytes[i] = "b1" THEN DecodeFrom(bytes, i + 1, TRUE, Append(text, "q"))
    ELSE IF bytes[i] = "b2"
         THEN DecodeFrom(bytes, i + 1, FALSE,
                         Append(text, IF held THEN "r" ELSE "q"))
    ELSE DecodeFrom(bytes, i + 1, FALSE, Append(text, bytes[i]))

\* Mutant of Decode: every chunk is decoded on its own.
DecodeAlone(chunk, held) == DecodeFrom(chunk, 1, FALSE, << >>)

\* text = decoder.decode(chunk, False)
Decode(chunk, held) == DecodeFrom(chunk, 1, held, << >>)

\* str.strip()
RECURSIVE LStrip(_)
LStrip(t) == IF t # << >> /\ Head(t) = "s" THEN LStrip(Tail(t)) ELSE t
RECURSIVE RStrip(_)
RStrip(t) ==
    IF t # << >> /\ t[Len(t)] = "s" THEN RStrip(SubSeq(t, 1, Len(t) - 1)) ELSE t
Strip(t) == LStrip(RStrip(t))

\* str.startswith
StartsWith(t, prefix) ==
    Len(t) >= Len(prefix) /\ SubSeq(t, 1, Len(prefix)) = prefix
DataPrefix == <<"d", "s">>
EventPrefix == <<"e", "s">>

\* json.loads: the value, or "JSONDecodeError".
JsonLoads(t) ==
    LET doc == Strip(t)
    IN IF doc = <<"a">> THEN "A"
       ELSE IF doc = <<"h">> THEN "heartbeat"
       ELSE IF doc = <<"q", "r">> THEN "B"
       ELSE IF doc = <<"q", "q">> THEN "emptystr"
       ELSE "JSONDecodeError"

\* isinstance(data, dict) and data.get("type") == "heartbeat"
IsHeartbeat(data) == data = "heartbeat"

\* Mutant of HandleLine: heartbeats are yielded like any other payload.
HandleLineYieldsAll(rawline, out) ==
    LET line == Strip(rawline)
        json_data == SubSeq(line, Len(DataPrefix) + 1, Len(line))
    IN IF StartsWith(line, DataPrefix) /\ Strip(json_data) # << >>
          /\ JsonLoads(json_data) # "JSONDecodeError"
       THEN [out EXCEPT !.yielded = Append(@, JsonLoads(json_data))]
       ELSE out

\* The body of the while loop for one line: what it yields and records.
HandleLine(rawline, out) ==
    LET line == Strip(rawline)
        json_data == SubSeq(line, Len(DataPrefix) + 1, Len(line))
    IN IF StartsWith(line, EventPrefix) THEN out
       ELSE IF ~StartsWith(line, DataPrefix) THEN out
       ELSE IF Strip(json_data) = << >> THEN out
       ELSE IF JsonLoads(json_data) = "JSONDecodeError" THEN out
       ELSE IF IsHeartbeat(JsonLoads(json_data))
            THEN [out EXCEPT !.heartbeats_received = @ + 1]
       ELSE [out EXCEPT !.yielded = Append(@, JsonLoads(json_data))]

\* while "\n" in buffer: line, buffer = buffer.split("\n", 1); ...
HasNewline(buffer) == \E i \in DOMAIN buffer : buffer[i] = "n"
FirstNewline(buffer) ==
    CHOOSE i \in DOMAIN buffer :
       buffer[i] = "n" /\ \A k \in 1..(i - 1) : buffer[k] # "n"
RECURSIVE DrainBuffer(_)
DrainBuffer(out) ==
    IF ~HasNewline(out.buffer) THEN out
    ELSE LET i == FirstNewline(out.buffer)
         IN DrainBuffer(HandleLine(SubSeq(out.buffer, 1, i - 1),
                           [out EXCEPT !.buffer =
                               SubSeq(out.buffer, i + 1, Len(out.buffer))]))

\* A response whose body is made of up to MaxLines lines and a tail; nothing
\* has been read.
InitStream ==
    /\ NoRunner /\ KeyIdle /\ ContextIdle /\ RegistryIdle /\ HttpIdle /\ PoolIdle
    /\ retry = NoRetry
    /\ \E n \in 0..MaxLines : \E kinds \in [1..n -> LineKinds], tail \in Tails :
          sse = [NoStream EXCEPT !.lines = kinds, !.tail = tail,
                                 !.phase = "reading"]

\* One turn of `for chunk in response.iter_bytes(...)`: the next n bytes are
\* decoded and appended to the buffer, and the buffer's complete lines are
\* handled.
ReadChunk(n) ==
    /\ sse.phase = "reading"
    /\ sse.pos < Len(StreamBytes)
    /\ LET last == IF sse.pos + n > Len(StreamBytes) THEN Len(StreamBytes)
                   ELSE sse.pos + n
           chunk == SubSeq(StreamBytes, sse.pos + 1, last)
           dec == Decode(chunk, sse.pending # << >>)
       IN sse' = DrainBuffer([sse EXCEPT
                     !.pos = last,
                     !.pending = IF dec.held THEN <<"lead">> ELSE << >>,
                     !.char_cut = @ \/ dec.held,
                     !.buffer = @ \o dec.text])
    /\ UNCHANGED <<keyvars, ctxvars, regvars, httpvars, poolvars, runnervars, retry>>

\* The response is exhausted: final_text = decoder.decode(b"", True) is
\* added to the buffer (a held lead byte is dropped) and the generator ends.
EndStream ==
    /\ sse.phase = "reading"
    /\ sse.pos = Len(StreamBytes)
    /\ sse' = [sse EXCEPT !.pending = << >>, !.phase = "closed"]
    /\ UNCHANGED <<keyvars, ctxvars, regvars, httpvars, poolvars, runnervars, retry>>

NextStream ==
    \/ \E n \in 1..MaxChunk : ReadChunk(n)
    \/ EndStream

StreamSpec == InitStream /\ [][NextStream]_vars

\* --------------------------------------------------------- stream_with_retry
\* Largest max_retries passed.
MaxRetries == 2

\* How `await self.stream(method, url, **kwargs)` can end: with a response,
\* with one of the two exceptions the except clause names, or with any
\* other exception.
StreamOutcomes == {"response", "ConnectError", "TimeoutException", "OtherError"}
IsRetried(outcome) == outcome \in {"ConnectError", "TimeoutException"}
\* retry_delay, in tenths of a second.
RetryDelays == {5, 10}

RECURSIVE Pow2(_)
Pow2(n) == IF n = 0 THEN 1 ELSE 2 * Pow2(n - 1)

\* Mutant of Backoff: the same delay before every retry.
BackoffConstant(retry_delay, attempt) == retry_delay

\* retry_delay * (2**attempt)
Backoff(retry_delay, attempt) == retry_delay * Pow2(attempt)

\* A call stream_with_retry(method, url, max_retries, retry_delay) on a new
\* client; outcomes[k] is how the k-th call of self.stream would end.
InitRetry ==
    /\ NoRunner /\ KeyIdle /\ ContextIdle /\ RegistryIdle /\ HttpIdle /\ PoolIdle
    /\ sse = NoStream
    /\ \E m \in 0..MaxRetries, d \in RetryDelays :
          \E o \in [1..(m + 1) -> StreamOutcomes] :
             retry = [max_retries |-> m, retry_delay |-> d, outcomes |-> o,
                      attempt |-> 0, attempts |-> 0, sleeps |-> << >>,
                      streaming_requests |-> 0, failed_connections |-> 0,
                      phase |-> "try", result |-> "none"]

RetryUnchanged ==
    UNCHANGED <<keyvars, ctxvars, regvars, httpvars, poolvars, runnervars, sse>>

\* One turn of the for loop up to its await of asyncio.sleep: self.stream is
\* awaited; a response is counted and returned; a connect or timeout error
\* is counted and, in the last turn, re-raised; any other exception leaves
\* the function.
RetryAttempt ==
    /\ retry.phase = "try"
    /\ LET r == retry.outcomes[retry.attempt + 1]
           made == [retry EXCEPT !.attempts = @ + 1]
       IN retry' =
            IF r = "response"
            THEN [made EXCEPT !.streaming_requests = @ + 1,
                              !.phase = "returned", !.result = r]
            ELSE IF ~IsRetried(r)
            THEN [made EXCEPT !.phase = "raised", !.result = r]
            ELSE IF retry.attempt = retry.max_retries
            THEN [made EXCEPT !.failed_connections = @ + 1,
                              !.phase = "raised", !.result = r]
            ELSE [made EXCEPT !.failed_connections = @ + 1,
                              !.phase = "sleep"]
    /\ RetryUnchanged

\* await asyncio.sleep(retry_delay * (2**attempt)), then the next turn.
RetrySleep ==
    /\ retry.phase = "sleep"
    /\ retry' = [retry EXCEPT
                   !.sleeps = Append(@, Backoff(retry.retry_delay, retry.attempt)),
                   !.attempt = @ + 1,
                   !.phase = "try"]
    /\ RetryUnchanged

NextRetry ==
    \/ RetryAttempt
    \/ RetrySleep

RetrySpec == InitRetry /\ [][NextRetry]_vars

\* ------------------------------------------------------------------ claims
EventIds == 1..Len(events)
IsTaskEvent(i) == events[i].kind = "task"
IsFlowEvent(i, status) == events[i].kind = "flow" /\ events[i].status = status
IsFlowTerminal(i) == IsFlowEvent(i, "SUCCESS") \/ IsFlowEvent(i, "FAILED")
HasFlowSuccess == \E i \in EventIds : IsFlowEvent(i, "SUCCESS")
CachesUnchanged ==
    /\ mem_cache' = mem_cache
    /\ s3_bucket' = s3_bucket
    /\ cache_ops' = cache_ops
\* The value a backend gives back for a stored value v.
StoredForm(v) == IF cache_type = "s3" THEN JsonLoad(JsonDump(v)) ELSE v
Stepped(c) == calls'[c] # calls[c]

\* C1: a run_task call that starts while the fuse is set ends at once with
\* the "Flow is in failed state" error: the body is not run, no cache read or
\* write is made, no status event is emitted and tasks_status is unchanged.
C1_FuseShortCircuit ==
    [][\A c \in CallIds :
         (calls[c].pc = "queued" /\ failed /\ Stepped(c))
         => /\ calls'[c].pc = "done"
            /\ calls'[c].outcome = "raise"
            /\ calls'[c].exc = FuseError
            /\ calls'[c].body_runs = 0
            /\ CachesUnchanged
            /\ events' = events
            /\ tasks_status' = tasks_status
            /\ failed' = failed]_vars

\* C1 witness: a call was refused by the fuse.
C1_Witness ==
    \E c \in CallIds : Done(c) /\ calls[c].exc = FuseError

\* C2 as claimed, taken on calls made one after the other: when a task is
\* called again with the same arguments after the first call has returned,
\* the body has run at most once in all, and the second call returns the
\* cached result of the first without running the body.
C2_BodyAtMostOnce ==
    \A c1, c2 \in CallIds :
        (c1 < c2 /\ calls[c2].alone
                 /\ calls[c1].outcome = "return"
                 /\ calls[c1].task = calls[c2].task
                 /\ calls[c1].args = calls[c2].args)
        => /\ calls[c1].body_runs + calls[c2].body_runs <= 1
           /\ Done(c2) => /\ calls[c2].body_runs = 0
                          /\ calls[c2].outcome = "return"
                          /\ calls[c2].value = StoredForm(calls[c1].value)

\* C2 amended: a call whose lookup finds the entry an earlier call stored
\* under its key takes the hit path (for the S3 backend unless creating the
\* client or reading the object fails): it never runs the body, and it
\* returns the stored form of the body's result.
C2_HitSkipsBody ==
    [][\A c \in CallIds :
         /\ (calls[c].pc = "rt_lookup" /\ Stepped(c)
                /\ Serialisable(calls[c].args) /\ CallKey(c) \in DOMAIN Backend)
            => \/ /\ calls'[c].pc = "rt_hit"
                  /\ calls'[c].body_runs = 0
                  /\ calls'[c].cached_result.result =
                        StoredForm(BodyResult(calls[c].task, calls[c].args))
               \/ /\ cache_type = "s3"
                  /\ calls'[c].lookup \in {"error", "raised"}
         /\ (calls[c].pc \in {"rt_hit", "rt_hit_log"} /\ Stepped(c))
            => /\ calls'[c].body_runs = 0
               /\ CachesUnchanged
               /\ calls'[c].pc = "done"
                  => /\ calls'[c].outcome = "return"
                     /\ calls'[c].value = calls[c].cached_result.result]_vars

\* C2 witness: a second call with the same task and arguments was served
\* from the cache and returned without running the body.
C2_Witness ==
    \E c1, c2 \in CallIds :
        /\ c1 < c2
        /\ calls[c1].task = calls[c2].task /\ calls[c1].args = calls[c2].args
        /\ calls[c1].body_runs = 1
        /\ Done(c2) /\ calls[c2].lookup = "hit" /\ calls[c2].outcome = "return"

\* C3 as claimed: every terminal task event (SUCCESS or FAILED) is preceded
\* by a RUNNING task event of the same call.
C3_RunningBeforeTerminal ==
    \A i \in EventIds :
        (IsTaskEvent(i) /\ events[i].status \in {"SUCCESS", "FAILED"})
        => \E j \in 1..(i - 1) :
               /\ IsTaskEvent(j)
               /\ events[j].call = events[i].call
               /\ events[j].status = "RUNNING"

\* C4 as claimed: the flow RUNNING event precedes every task event and the
\* flow terminal event follows every task event of the run.
C4_FlowEventsBracketTaskEvents ==
    \A i, j \in EventIds :
        IsTaskEvent(j)
        => /\ IsFlowEvent(i, "RUNNING") => i < j
           /\ IsFlowTerminal(i) => j < i

\* C4 amended: every task event comes after the flow RUNNING event; and when
\* no task call was still queued or running as the flow body ended, the flow
\* terminal event follows every task event of the run.
C4_BracketWhenDrained ==
    /\ \A j \in EventIds :
           IsTaskEvent(j) => \E i \in 1..(j - 1) : IsFlowEvent(i, "RUNNING")
    /\ \A i, j \in EventIds :
           (IsTaskEvent(j) /\ IsFlowEvent(i, "RUNNING")) => i < j
    /\ body_exit.drained
       => \A i, j \in EventIds :
              (IsTaskEvent(j) /\ IsFlowTerminal(i)) => j < i

\* C4 witness: a run whose body ended with every call finished has emitted
\* task events and then its terminal flow event.
C4_Witness ==
    /\ body_exit.drained
    /\ \E i, j \in EventIds : IsTaskEvent(j) /\ IsFlowTerminal(i)

\* C5 as claimed, taken on the runs in which every task call had finished
\* when the flow body ended: a finished run_flow has emitted exactly one
\* terminal flow event, after the RUNNING event.
C5_ExactlyOneTerminal ==
    (pc = "done" /\ body_exit.drained)
    => /\ Cardinality({i \in EventIds : IsFlowTerminal(i)}) = 1
       /\ \A i \in EventIds :
              IsFlowTerminal(i)
              => \E j \in 1..(i - 1) : IsFlowEvent(j, "RUNNING")

\* C6 as claimed: the fuse never goes back to false, and the flow SUCCESS
\* event is never emitted while the fuse is set.
C6_LatchAndNoSuccessWhenFused ==
    [][/\ failed => failed'
       /\ (events' # events /\ events'[Len(events')] = FlowEvent("SUCCESS"))
          => ~failed]_vars

\* C6 amended: the fuse never goes back to false; run_flow does not go on to
\* emit SUCCESS when it finds the fuse set after the body returned; and a run
\* that emitted SUCCESS has its fuse set only if a task call was still queued
\* or running when the body returned.
C6_LatchAndSuccessChecked ==
    [][/\ failed => failed'
       /\ (pc = "rf_check" /\ failed) => pc' # "rf_success"
       /\ (events' # events /\ events'[Len(events')] = FlowEvent("SUCCESS"))
          => (pc = "rf_success" /\ body_exit.kind = "return")
       /\ (HasFlowSuccess' /\ body_exit'.drained) => ~failed']_vars

\* C6 witness: a flow that ran tasks, all finished before the body
\* returned, emitted SUCCESS.
C6_Witness ==
    /\ HasFlowSuccess
    /\ body_exit.drained
    /\ calls # << >>

\* C7: once run_flow has returned or raised, the pool is shut down with no
\* job left in it and, with the in-memory backend, the cache is empty.
C7_CleanupOnExit ==
    pc = "done"
    => /\ shutdown
       /\ AllDone
       /\ cache_type = "memory" => mem_cache = EmptyMap

\* C7 witness: a run with the in-memory backend stored a result and ended
\* by raising.
C7_Witness ==
    /\ pc = "done"
    /\ flow_outcome = "raise"
    /\ cache_type = "memory"
    /\ cache_ops.writes > 0

\* C8: when the task body raises, run_task sets the fuse and marks the task
\* FAILED, then emits a FAILED task event without cache key and raises the
\* body's own exception; it writes nothing to the cache.
C8_TaskFailure ==
    [][\A c \in CallIds :
         /\ (calls[c].pc = "rt_lookup" /\ calls'[c].body_runs = 1
                /\ BodyRaises(calls[c].task, calls[c].args))
            => /\ calls'[c].pc = "rt_except"
               /\ calls'[c].exc = TaskBodyError
               /\ mem_cache' = mem_cache /\ s3_bucket' = s3_bucket
               /\ cache_ops'.writes = cache_ops.writes
         /\ (calls[c].exc = TaskBodyError /\ Stepped(c))
            => /\ calls'[c].exc = TaskBodyError
               /\ CachesUnchanged
               /\ calls[c].pc = "rt_except"
                  => /\ failed'
                     /\ tasks_status'[calls[c].task] = "FAILED"
                     /\ calls'[c].pc = "rt_failed_log"
               /\ calls[c].pc = "rt_failed_log"
                  => /\ events' = Append(events, TaskEvent(c, "FAILED", NoKey))
                     /\ failed
                     /\ calls'[c].pc = "done"
                     /\ calls'[c].outcome = "raise"
               /\ calls[c].pc \in {"rt_except", "rt_failed_log"}]_vars

\* C8 witness: a call whose body raised has ended.
C8_Witness ==
    \E c \in CallIds :
        Done(c) /\ calls[c].body_runs = 1 /\ calls[c].exc = TaskBodyError

\* C9: when the flow body raised, a finished run_flow has set the fuse,
\* emitted flow FAILED (and no SUCCESS), shut the pool down, cleared the
\* in-memory cache, and raises the very exception the body raised; the
\* caller sees an outcome only once all of that is done.
C9_FlowFailure ==
    /\ flow_outcome # "none" => pc = "done"
    /\ (pc = "done" /\ body_exit.kind = "raise")
       => /\ failed
          /\ flow_outcome = "raise"
          /\ flow_exc = body_exit.exc
          /\ \E i \in EventIds : IsFlowEvent(i, "FAILED")
          /\ ~HasFlowSuccess
          /\ shutdown /\ AllDone
          /\ cache_type = "memory" => mem_cache = EmptyMap

\* C9 witness: a flow whose body let a task's exception propagate has ended.
C9_Witness ==
    /\ pc = "done"
    /\ body_exit.kind = "raise"
    /\ flow_exc = TaskBodyError

\* C10 as claimed: a call that got past the fuse check and whose body
\* returns normally ends by returning (the body's result when the body
\* ran), with no FAILED event for it, whatever the cache backend did.
C10_InfrastructureIsolated ==
    \A c \in CallIds :
        (Done(c) /\ calls[c].exc # FuseError
                 /\ ~BodyRaises(calls[c].task, calls[c].args))
        => /\ calls[c].outcome = "return"
           /\ calls[c].body_runs = 1
              => calls[c].value = BodyResult(calls[c].task, calls[c].args)
           /\ ~\E i \in EventIds :
                  /\ IsTaskEvent(i)
                  /\ events[i].call = c
                  /\ events[i].status = "FAILED"

\* C11 as claimed: no cache operation propagates an exception to run_task:
\* no call is ever handling (or has raised) an error of key derivation or of
\* the creation of the backend client.
C11_CacheNeverRaises ==
    \A c \in CallIds :
        calls[c].exc \notin {KeyDerivationError, ClientCreationError}

\* C12: with the remote emitter configured, a log_*_status call whose
\* connect or publish fails returns normally: the step changes nothing of
\* the runner and run_flow / run_task go on as after a delivered event (a
\* task returns the result it computed or read, a failed task raises its own
\* exception); and run_flow ends by raising exactly when the flow body
\* raised.
C12_EmitFailureSwallowed ==
    [][/\ (events' # events)
          => /\ UNCHANGED <<failed, tasks_status, mem_cache, s3_bucket,
                            shutdown, cache_ops, flow_exc, body_exit>>
             /\ events'[Len(events')].kind = "flow"
                => /\ pc = "rf_running" => pc' = "body"
                   /\ pc = "rf_success" => pc' = "rf_shutdown"
                   /\ pc = "rf_failed" => pc' = "rf_shutdown"
                   /\ calls' = calls
             /\ \A c \in CallIds :
                   Stepped(c)
                   => /\ calls'[c].pc = "done"
                      /\ calls'[c].exc = calls[c].exc
                      /\ calls[c].pc = "rt_hit_log"
                         => /\ calls'[c].outcome = "return"
                            /\ calls'[c].value = calls[c].cached_result.result
                      /\ calls[c].pc = "rt_success_log"
                         => /\ calls'[c].outcome = "return"
                            /\ calls'[c].value =
                                  BodyResult(calls[c].task, calls[c].args)
                      /\ calls[c].pc = "rt_failed_log"
                         => calls'[c].outcome = "raise"
       /\ pc' = "done"
          => (flow_outcome' = "raise" <=> body_exit'.kind = "raise")]_vars

\* C12 witness: a run with the remote emitter whose latest emission failed
\* has ended by returning, with a task that ran and returned its result.
C12_Witness ==
    /\ is_remote
    /\ pc = "done"
    /\ flow_outcome = "return"
    /\ last_emit \in {"connect_failed", "publish_failed"}
    /\ HasFlowSuccess
    /\ \E c \in CallIds :
           /\ calls[c].outcome = "return"
           /\ calls[c].body_runs = 1
           /\ calls[c].value = BodyResult(calls[c].task, calls[c].args)

NoFlowActive == \A i \in FlowInvocations : fw[i] \in {"start", "raised", "ended"}
OutsideCallStep == task_call' # task_call /\ task_call'.caller = "outside"

C16_RegisteredWhileRunning ==
    \A i \in FlowInvocations : fw[i] = "body" => i \in Registered

\* C17: once an invocation of the flow-wrapped function has finished, by
\* returning or by raising, _active_flows holds no entry for its runner, and
\* stays so while the flow runs and after it; and _active_flows is only
\* changed by an invocation that holds _flow_lock.
C17_RemovedOnExit ==
    [][/\ \A i \in FlowInvocations :
             fw'[i] \in {"returned", "raised", "body", "ended"}
             => i \notin {active_flows'[k] : k \in DOMAIN active_flows'}
       /\ active_flows' # active_flows
          => \E i \in FlowInvocations :
                 /\ flow_lock = i /\ flow_lock' = i
                 /\ fw'[i] # fw[i]
                 /\ \A j \in FlowInvocations \ {i} : fw'[j] = fw[j]]_vars

\* C17 witness: an invocation has returned after registering and removing
\* its runner while another invocation's runner is registered.
C17_Witness ==
    \E i, j \in FlowInvocations :
        /\ i # j
        /\ fw[i] = "returned"
        /\ j \in Registered

\* C18: applying the flow decorator in a module that already has a
\* registered flow raises FlowError and leaves the flow registry as it was
\* (the first flow stays registered); no flow or task is executed by it; in
\* a module without a flow the decorator registers the flow.
C18_OneFlowPerModule ==
    [][(decor' # decor /\ decor'.op = "flow")
       => /\ decor'.unit \in DOMAIN flow_registry
             => /\ decor'.result = "FlowError"
                /\ flow_registry' = flow_registry
          /\ decor'.unit \notin DOMAIN flow_registry
             => /\ decor'.result = "wrapper"
                /\ flow_registry'[decor'.unit] = decor'.func
          /\ \A m \in DOMAIN flow_registry :
                /\ m \in DOMAIN flow_registry'
                /\ flow_registry'[m] = flow_registry[m]
          /\ UNCHANGED <<task_registry, ctxvars, runnervars>>]_vars

\* C18 witness: a second flow decoration in a module raised FlowError and
\* the module's first flow is still the registered one.
C18_Witness ==
    /\ decor.op = "flow"
    /\ decor.result = "FlowError"
    /\ decor.unit \in DOMAIN flow_registry
    /\ flow_registry[decor.unit] # decor.func

\* The function of the latest register_task call for name n, or None.
LatestRegistration(n) ==
    LET idx == {k \in DOMAIN reg_log : reg_log[k][1] = n}
    IN IF idx = {} THEN "None"
       ELSE reg_log[CHOOSE k \in idx : \A j \in idx : j <= k][2]

\* C19: register_task never raises, also for a name that is registered;
\* get_task(name) returns the function of the latest registration of the
\* name, or None when there was none; and no step removes a name from the
\* registry.
C19_RegistryLastWins ==
    [][/\ \A n \in DOMAIN task_registry : n \in DOMAIN task_registry'
       /\ (decor'.op = "task" /\ reg_log' # reg_log)
          => /\ decor'.result = "wrapper"
             /\ task_registry'[decor'.unit] = decor'.func
       /\ (decor'.op = "get_task")
          => decor'.result = LatestRegistration(decor'.unit)]_vars

\* C19 witness: a name was registered twice with different functions and
\* get_task returned the second.
C19_Witness ==
    /\ decor.op = "get_task"
    /\ \E j, k \in DOMAIN reg_log :
           /\ j < k
           /\ reg_log[j][1] = decor.unit /\ reg_log[k][1] = decor.unit
           /\ reg_log[j][2] # reg_log[k][2]
           /\ decor.result = reg_log[k][2]
           /\ \A l \in DOMAIN reg_log : l > k => reg_log[l][1] # decor.unit

\* What C20 says of everything but a JSON object's "error" and "message"
\* members: nothing is raised exactly for a successful response; otherwise
\* PinazuAPIError carries the response's status code, and its message is
\* "HTTP <code>" for an object with neither member, the stringified body for
\* JSON that is no object, and the response text ("HTTP <code>" when it is
\* empty) when the body is no JSON.
C20_Rest ==
    /\ raised.raises <=> ~IsSuccess(response)
    /\ raised.raises
       => /\ raised.status_code = response.status_code
          /\ (response.json = "object" /\ response.error = "absent"
                 /\ response.message = "absent")
             => raised.message = HttpCode(response)
          /\ response.json = "array" => raised.message = Str("array")
          /\ response.json = "invalid"
             => raised.message =
                   IF response.text # ""
                   THEN [form |-> "text", of |-> response.text]
                   ELSE HttpCode(response)

\* C20 as claimed: ... and for a JSON object the message is its "error"
\* member, else its "message" member.
C20_MessageIsField ==
    raised.called
    => /\ C20_Rest
       /\ (raised.raises /\ response.json = "object")
          => /\ response.error # "absent"
                => raised.message = Value(response.error)
             /\ (response.error = "absent" /\ response.message # "absent")
                => raised.message = Value(response.message)

\* C20 amended: ... and for a JSON object the message is its "error"
\* member, else its "message" member, as str() of the member when the
\* member is itself a JSON object, and the member as it is otherwise.
C20_MessageIsFieldOrItsStr ==
    raised.called
    => /\ C20_Rest
       /\ (raised.raises /\ response.json = "object")
          => LET member == IF response.error # "absent" THEN response.error
                           ELSE response.message
             IN member # "absent"
                => raised.message =
                      IF IsDict(member) THEN Str(member) ELSE Value(member)

\* C20 witness: an unsuccessful response whose body has both members, the
\* "error" member a string, was turned into an error with that string.
C20_Witness ==
    /\ raised.raises
    /\ response.json = "object"
    /\ response.error = "error-string"
    /\ response.message # "absent"
    /\ raised.message = Value("error-string")

\* C21 as claimed: a task call made by the body of a flow invocation is
\* handed to that invocation's own runner (its executor gets the job, so its
\* fuse, status map and cache namespace are the ones run_task uses), whatever
\* the other invocations of the process are doing.
C21_OwnRunnerExecutes ==
    task_call.caller \in FlowInvocations
    => /\ task_call.context = task_call.caller
       /\ task_call.result = "future"
       /\ task_call.caller \in submitted

C25_FailedWriteStillSuccess ==
    [][\A c \in CallIds :
         /\ (calls[c].pc = "rt_store" /\ Stepped(c)
                /\ Serialisable(calls[c].args))
            => /\ calls'[c].pc = "rt_success"
               /\ calls'[c].result = calls[c].result
               /\ failed' = failed
               /\ calls'[c].result_cache_key = EmptyKey
                  => /\ mem_cache' = mem_cache
                     /\ s3_bucket' = s3_bucket
         /\ (calls[c].result_cache_key = EmptyKey /\ Stepped(c))
            => /\ failed' = failed
               /\ CachesUnchanged
               /\ calls[c].pc = "rt_success"
                  => /\ tasks_status'[calls[c].task] = "SUCCESS"
                     /\ calls'[c].pc = "rt_success_log"
               /\ calls[c].pc = "rt_success_log"
                  => /\ events' = Append(events, TaskEvent(c, "SUCCESS", EmptyKey))
                     /\ calls'[c].pc = "done"
                     /\ calls'[c].outcome = "return"
                     /\ calls'[c].value =
                           BodyResult(calls[c].task, calls[c].args)
               /\ calls[c].pc \in {"rt_success", "rt_success_log"}]_vars

\* C25 witness: a call whose write failed has returned the body's result,
\* its SUCCESS event carries the empty key, and the run ended with the fuse
\* still false.
C25_Witness ==
    /\ pc = "done"
    /\ ~failed
    /\ \E c \in CallIds :
           /\ calls[c].result_cache_key = EmptyKey
           /\ calls[c].outcome = "return"
           /\ calls[c].value = BodyResult(calls[c].task, calls[c].args)
           /\ tasks_status[calls[c].task] = "SUCCESS"
           /\ \E i \in EventIds :
                  events[i] = TaskEvent(c, "SUCCESS", EmptyKey)

\* C23: a lookup, hit or miss, leaves the contents of both backends as they
\* were; when it returns the stored entry, whatever the stored result is,
\* run_task takes the hit path: it marks the task SUCCESS, emits a SUCCESS
\* event with the cache key of the entry and returns the entry's result (as
\* the backend reads it back), without running the body or writing to the
\* cache.
C23_HitPath ==
    [][\A c \in CallIds :
         /\ (calls[c].pc = "rt_lookup" /\ Stepped(c))
            => /\ mem_cache' = mem_cache
               /\ s3_bucket' = s3_bucket
               /\ cache_ops'.writes = cache_ops.writes
               /\ calls'[c].lookup = "hit"
                  => /\ calls'[c].pc = "rt_hit"
                     /\ calls'[c].body_runs = 0
                     /\ calls'[c].cached_result.cache_key =
                           Backend[CallKey(c)].cache_key
                     /\ calls'[c].cached_result.result =
                           IF cache_type = "s3"
                           THEN JsonLoad(s3_bucket[CallKey(c)].result)
                           ELSE mem_cache[CallKey(c)].result
         /\ (calls[c].lookup = "hit" /\ Stepped(c))
            => /\ calls'[c].body_runs = 0
               /\ CachesUnchanged
               /\ failed' = failed
               /\ calls[c].pc = "rt_hit"
                  => /\ tasks_status'[calls[c].task] = "SUCCESS"
                     /\ calls'[c].pc = "rt_hit_log"
               /\ calls[c].pc = "rt_hit_log"
                  => /\ events' = Append(events,
                            TaskEvent(c, "SUCCESS",
                                      calls[c].cached_result.cache_key))
                     /\ calls'[c].pc = "done"
                     /\ calls'[c].outcome = "return"
                     /\ calls'[c].value = calls[c].cached_result.result
               /\ calls[c].pc \in {"rt_hit", "rt_hit_log"}]_vars

\* C23 witness: a call was served a stored None from the cache and returned
\* it without running the body.
C23_Witness ==
    \E c \in CallIds :
        /\ Done(c)
        /\ calls[c].lookup = "hit"
        /\ calls[c].outcome = "return"
        /\ calls[c].value = "None"
        /\ calls[c].body_runs = 0
        /\ tasks_status[calls[c].task] = "SUCCESS"

\* A call of this run whose task and arguments a call of an earlier run under
\* the same FLOW_RUN_ID returned with.
ReturnedBefore(c) == <<calls[c].task, calls[c].args>> \in rerun.returned

\* C24 as claimed: in a later run under the same run id, a call with the
\* task and arguments of a call that returned in the earlier run gets a hit
\* and does not run the body with the durable backend, and runs the body
\* with the volatile one.
C24_LaterRunHitsOrExecutes ==
    \A c \in CallIds :
        (rerun.no > 0 /\ Done(c) /\ calls[c].exc # FuseError
                      /\ ReturnedBefore(c))
        => IF cache_type = "s3"
           THEN calls[c].lookup = "hit" /\ calls[c].body_runs = 0
           ELSE calls[c].body_runs = 1

\* C24 amended: the end of a run and the start of the next leave the bucket
\* as it is and the in-memory cache empty.  In the later run, with the
\* durable backend a lookup whose key is in the bucket returns the entry and
\* the body is not run, unless the read fails (taken as a miss: the body is
\* run) or creating the client raises; with the volatile backend a call that
\* no call of the later run itself precedes with the same task and arguments
\* misses and runs the body.
C24_DurableOutlivesRun ==
    [][/\ (pc' = "done" \/ pc = "done")
          => /\ s3_bucket' = s3_bucket
             /\ mem_cache' = EmptyMap
       /\ \A c \in CallIds :
             (rerun.no > 0 /\ calls[c].pc = "rt_lookup" /\ Stepped(c)
                 /\ Serialisable(calls[c].args))
             => /\ (cache_type = "s3"
                      /\ S3CacheKey(flow_run_id, calls[c].task, calls[c].args)
                            \in DOMAIN s3_bucket)
                   => \/ /\ calls'[c].lookup = "hit"
                         /\ calls'[c].pc = "rt_hit"
                         /\ calls'[c].body_runs = 0
                      \/ /\ calls'[c].lookup = "error"
                         /\ calls'[c].body_runs = 1
                      \/ /\ calls'[c].lookup = "raised"
                         /\ calls'[c].exc = ClientCreationError
                         /\ calls'[c].body_runs = 0
                /\ (cache_type = "memory"
                      /\ \A d \in CallIds \ {c} :
                            <<calls[d].task, calls[d].args>>
                               # <<calls[c].task, calls[c].args>>)
                   => /\ calls'[c].lookup = "miss"
                      /\ calls'[c].body_runs = 1]_vars

\* C24 witness: in the later run, with the durable backend, a call with the
\* task and arguments of a call that returned in the earlier run was served
\* from the bucket and returned without running the body.
C24_Witness ==
    /\ rerun.no > 0
    /\ cache_type = "s3"
    /\ \E c \in CallIds :
           /\ ReturnedBefore(c)
           /\ Done(c)
           /\ calls[c].lookup = "hit"
           /\ calls[c].body_runs = 0
           /\ calls[c].outcome = "return"

\* C26: a log_*_status call makes at most one publish call for its event,
\* to the flow-status subject for a flow event and to the task-status
\* subject for a task event, and no publish is made outside such a call (no
\* later retry); with the local logger nothing is published and no
\* connection is attempted or held.
C26_PublishedOnceToItsSubject ==
    [][/\ Emitted
          => LET ev == events'[Len(events')]
             IN /\ Len(last_send'.subjects) <= 1
                /\ \A k \in DOMAIN last_send'.subjects :
                      last_send'.subjects[k] =
                         IF ev.kind = "flow" THEN FLOW_STATUS ELSE TASK_STATUS
                /\ last_emit' = "published" => Len(last_send'.subjects) = 1
                /\ ~is_remote
                   => /\ last_send' = NoSend
                      /\ last_emit' = "logged"
       /\ last_send' # last_send => Emitted
       /\ ~is_remote => /\ ~nat_client'
                        /\ connecting' = {}]_vars

\* C26 witness: a run with the remote emitter has published a flow event
\* and, last, a task event.
C26_Witness ==
    /\ is_remote
    /\ last_emit = "published"
    /\ events # << >>
    /\ events[Len(events)].kind = "task"
    /\ last_send.subjects = <<TASK_STATUS>>
    /\ \E i \in EventIds : IsFlowEvent(i, "RUNNING")

\* C27 as claimed: nothing is connected or being connected before the first
\* emission; the first remote emission attempts to connect; and a
\* connection is established only while none has been established (at most
\* one successful connect per LogManager).
C27_ConnectsLazilyOnce ==
    [][/\ (events = << >> /\ connecting = {})
          => (~nat_client /\ last_send = NoSend)
       /\ (is_remote /\ events = << >> /\ Emitted)
          => last_send'.connect \in {"failed", "established"}
       /\ (Emitted /\ last_send'.connect = "established") => ~nat_client]_vars

\* C28: a _send_remote_log call whose event serialises with an empty
\* message makes no publish call and returns normally: it ends as rejected,
\* or earlier, at a failed connect.
C28_EmptyMessageRejected ==
    [][(Emitted /\ events'[Len(events')].kind = "empty")
       => /\ last_send'.subjects = << >>
          /\ last_emit' \in {"rejected", "connect_failed"}
          /\ ~events'[Len(events')].raised
          /\ nat_client' => last_emit' = "rejected"]_vars

\* C28 witness: after a send that published, a send with an empty message
\* was rejected on the connected client.
C28_Witness ==
    /\ Len(events) = 2
    /\ events[1].kind # "empty"
    /\ events[2].kind = "empty"
    /\ ~events[2].raised
    /\ nat_client
    /\ last_emit = "rejected"
    /\ last_send.subjects = << >>

\* C29 as claimed: when the flow body and the task bodies terminate, run_flow
\* ends; in particular, while executor.shutdown(wait=True) waits, the jobs of
\* the pool have all ended or one of them can still take a step.
C29_ShutdownNeverWaitsForever ==
    pool_pc = "shutdown" => (AllJobsDone \/ JobsCanStep)

\* C30 as claimed: a task call whose body calls another task of the flow
\* completes, whatever the pool's size and the nesting depth: while a job
\* awaits the job its body submitted, some job of the pool can take a step.
C30_NestedCallCompletes ==
    \A j \in JobIds : jobs[j].pc = "awaiting" => JobsCanStep

\* A task FAILED event of the run has been emitted.
TaskFailedEmitted ==
    \E i \in EventIds : IsTaskEvent(i) /\ events[i].status = "FAILED"

\* C31 as claimed: once a task FAILED event of the run has been emitted, no
\* step of the run emits a task SUCCESS event or writes a cache entry.
C31_NothingAfterTaskFailed ==
    [][TaskFailedEmitted
       => /\ ~(/\ Emitted
               /\ events'[Len(events')].kind = "task"
               /\ events'[Len(events')].status = "SUCCESS")
          /\ cache_ops'.writes = cache_ops.writes
          /\ mem_cache' = mem_cache \/ mem_cache' = EmptyMap
          /\ s3_bucket' = s3_bucket]_vars

\* Event i is the task SUCCESS event of a call that ran the body and stored
\* the result; event j is the one of a call served from the cache.
FreshSuccess(i) ==
    /\ IsTaskEvent(i)
    /\ events[i].status = "SUCCESS"
    /\ calls[events[i].call].body_runs = 1
    /\ events[i].key # EmptyKey
ServedSuccess(j) ==
    /\ IsTaskEvent(j)
    /\ events[j].status = "SUCCESS"
    /\ calls[events[j].call].body_runs = 0
SameInvocation(i, j) ==
    /\ calls[events[i].call].task = calls[events[j].call].task
    /\ calls[events[i].call].args = calls[events[j].call].args

\* C32 as claimed: for one invocation (run id, task name, arguments), the
\* key in the SUCCESS event of the fresh execution equals the key in the
\* SUCCESS event of a later call served from the cache, with either backend.
C32_SameKeyOnBothPaths ==
    \A i, j \in EventIds :
       (i < j /\ FreshSuccess(i) /\ ServedSuccess(j) /\ SameInvocation(i, j))
       => events[i].key = events[j].key

\* The status of the last event of `evs` emitted for task t ("none" if
\* there is none).
LastStatusOf(evs, t) ==
    LET ids == {i \in DOMAIN evs : evs[i].kind = "task" /\ evs[i].task = t}
    IN IF ids = {} THEN "none"
       ELSE evs[CHOOSE i \in ids : \A k \in ids : k <= i].status

\* Call c, which passed the fuse check, ends in this step.
FinishesChecked(c) ==
    /\ calls[c].pc \in {"rt_hit_log", "rt_success_log", "rt_failed_log"}
    /\ calls'[c].pc = "done"

\* C33 as claimed: a task is recorded FAILED only while the fuse is set; and
\* when a run_task call that passed the fuse check ends, the recorded status
\* of its task is SUCCESS or FAILED and is the status of the last event
\* emitted for that task.
C33_StatusMapConsistent ==
    [][/\ \A t \in Tasks : tasks_status'[t] = "FAILED" => failed'
       /\ \A c \in CallIds :
             FinishesChecked(c)
             => /\ tasks_status'[calls[c].task] \in {"SUCCESS", "FAILED"}
                /\ tasks_status'[calls[c].task]
                      = LastStatusOf(events', calls[c].task)]_vars

\* Entry `entry` under key k is what the store_result call of c wrote: c ran
\* the body, the body returned, and the entry carries k, the key of c's own
\* run id, task name and arguments, and the value the body returned (as the
\* JSON document of it in the bucket).
WrittenBy(k, entry, c) ==
    /\ calls[c].body_runs = 1
    /\ ~BodyRaises(calls[c].task, calls[c].args)
    /\ calls[c].result = BodyResult(calls[c].task, calls[c].args)
    /\ calls[c].result_cache_key \notin {NoKey, EmptyKey}
    /\ k = CallKey(c)
    /\ k.flow = flow_run_id
    /\ entry.cache_key = k
    /\ entry.result = IF cache_type = "s3" THEN JsonDump(calls[c].result)
                      ELSE calls[c].result

\* Call c stores the result of its body in this step.
StoreStep(c) == calls[c].pc = "rt_store" /\ calls'[c].pc = "rt_success"

\* C34: every entry of the run's cache was written by a call whose body ran
\* and returned, under the key of that call's run id, task name and
\* arguments, and holds the value the body returned; the cache changes only
\* when such a call stores its result (at most that call's entry) and when
\* run_flow clears the in-memory cache: a call that failed, was refused by
\* the fuse or was served from the cache adds and changes nothing.
C34_CacheContent ==
    [][/\ \A k \in DOMAIN Backend' :
             \E c \in DOMAIN calls' :
                /\ calls'[c].body_runs = 1
                /\ ~BodyRaises(calls'[c].task, calls'[c].args)
                /\ calls'[c].result = BodyResult(calls'[c].task, calls'[c].args)
                /\ calls'[c].result_cache_key \notin {NoKey, EmptyKey}
                /\ k = GenerateCacheKey(calls'[c].task, calls'[c].args)
                /\ k.flow = flow_run_id
                /\ Backend'[k].cache_key = k
                /\ Backend'[k].result =
                      IF cache_type = "s3" THEN JsonDump(calls'[c].result)
                      ELSE calls'[c].result
       /\ Backend' # Backend
          => \/ pc = "rf_clear" /\ Backend' = EmptyMap
             \/ \E c \in CallIds :
                   /\ StoreStep(c)
                   /\ calls[c].body_runs = 1
                   /\ calls[c].exc = NoExc
                   /\ \A k \in DOMAIN Backend :
                         k # CallKey(c) => (k \in DOMAIN Backend'
                                            /\ Backend'[k] = Backend[k])
                   /\ DOMAIN Backend' = DOMAIN Backend \cup {CallKey(c)}]_vars

\* C34 witness: the cache holds the entry one call wrote, and another call
\* of the run has failed.
C34_Witness ==
    /\ \E k \in DOMAIN Backend, c \in CallIds : WrittenBy(k, Backend[k], c)
    /\ \E c \in CallIds : Done(c) /\ calls[c].outcome = "raise"
                                  /\ calls[c].exc = TaskBodyError

\* What the lines of a body call for, by the kind of each: the payloads to
\* yield, in order, and the number of heartbeats.
RECURSIVE PayloadsOf(_)
PayloadsOf(kinds) ==
    IF kinds = << >> THEN << >>
    ELSE (IF Head(kinds) \in {"data_a", "data_a_cr"} THEN <<"A">>
          ELSE IF Head(kinds) = "data_b" THEN <<"B">> ELSE << >>)
         \o PayloadsOf(Tail(kinds))
RECURSIVE HeartbeatsOf(_)
HeartbeatsOf(kinds) ==
    IF kinds = << >> THEN 0
    ELSE (IF Head(kinds) = "heartbeat" THEN 1 ELSE 0) + HeartbeatsOf(Tail(kinds))
IsPrefixOf(s, t) == Len(s) <= Len(t) /\ SubSeq(t, 1, Len(s)) = s

\* C35: however the response bytes are cut into chunks, _execute_task_stream
\* yields the payloads of the newline-terminated, well-formed "data: " lines
\* that are no heartbeats, each once and in stream order (at any moment a
\* prefix of them, at the end all of them); each heartbeat line adds one to
\* heartbeats_received and is not yielded; "event: " lines, empty data lines
\* and malformed JSON yield nothing and the reading goes on to the end.
C35_ChunkingIndependent ==
    sse.phase \in {"reading", "closed"}
    => /\ IsPrefixOf(sse.yielded, PayloadsOf(sse.lines))
       /\ sse.heartbeats_received <= HeartbeatsOf(sse.lines)
       /\ \A i \in DOMAIN sse.yielded : sse.yielded[i] # "heartbeat"
       /\ sse.phase = "closed"
          => /\ sse.yielded = PayloadsOf(sse.lines)
             /\ sse.heartbeats_received = HeartbeatsOf(sse.lines)
             /\ sse.pos = Len(StreamBytes)

\* C35 witness: a body with a heartbeat, then a payload whose two-byte
\* character was cut by a chunk boundary, then an unterminated data line,
\* has been read to the end.
C35_Witness ==
    /\ sse.phase = "closed"
    /\ sse.lines = <<"heartbeat", "data_b">>
    /\ sse.tail # << >>
    /\ sse.yielded = <<"B">>
    /\ sse.heartbeats_received = 1
    /\ sse.buffer = sse.tail
    /\ sse.char_cut

\* The self.stream calls stream_with_retry has made: the first
\* retry.attempts entries of the outcomes.
Made == SubSeq(retry.outcomes, 1, retry.attempts)
FailedSoFar == Cardinality({k \in DOMAIN Made : IsRetried(Made[k])})

====
